---- MODULE Spec2Model ----
(***************************************************************************)
(* A model of the lovely-injector patch runtime: the rewrite engine        *)
(* (PatchTable::apply_patches and the four patch kinds), the byte-region   *)
(* bookkeeping of the dump layer, and the interception shim with its       *)
(* per-interpreter-state init and the reader/writer lock that guards the   *)
(* published PatchTable.                                                   *)
(*                                                                         *)
(* Text is a sequence of one-byte characters, each a string of length 1.   *)
(* In variable tokens the opening delimiter `{{lovely:` is written "{" and *)
(* the closing delimiter `}}` is written "}"; every other character stands *)
(* for itself.                                                             *)
(***************************************************************************)
EXTENDS Integers, Sequences, FiniteSets, TLC

VARIABLES
    \* The rewrite of one detoured load (Lovely::apply_buffer_patches).
    patch_table,   \* the PatchTable the load works on
    dump_all,      \* Lovely.dump_all
    name,          \* the chunk name of the load
    buf,           \* the bytes the host handed in
    pc,            \* position of the load: "start", "patch", "done"
    queue,         \* indices of the patches still to visit, in visiting order
    rope,          \* the rope being edited
    byte_entries,  \* byte_entries of apply_patches
    patch_count,   \* patch_count of apply_patches
    applied,       \* the patches counted, in the order they were applied
    handed,        \* the bytes handed to the original loader (None before)
    lua,           \* the interpreter state of the load
    last,          \* the latest pattern or regex application
    debug,         \* the PatchDebug of the finished rewrite
    loads,         \* how many times the host has loaded the chunk
    \* The runtime shared by threads (RUNTIME, the RwLock<PatchTable>).
    disk,          \* the catalog the mod directory holds
    table_pub,     \* the PatchTable inside the RwLock
    rlock,         \* the threads holding the read lock
    tpc,           \* position of each thread
    tstate,        \* the interpreter state of each thread's load
    luas,          \* the interpreter states
    seen,          \* what each thread's load has read from the table
    new_table,     \* what each thread's reload has built from the disk
    ret,           \* what each thread's latest reload_patches returned
    calls,         \* the number of calls each thread has made
    history,       \* every PatchTable published so far
    \* The Windows shim (lovely-win).
    HAS_INIT,      \* the process-wide once-guard
    win_luas,      \* the interpreter states the shim has seen
    win_calls,     \* detoured loads per interpreter state
    win_last,      \* the latest detoured load of the shim
    \* One call of a function on given arguments.
    fn_in,         \* the arguments
    fn_out         \* the result (None before the call)

engine_vars == <<patch_table, dump_all, name, buf, pc, queue, rope, byte_entries,
                 patch_count, applied, handed, lua, last, debug, loads>>
shim_vars == <<disk, table_pub, rlock, tpc, tstate, luas, seen, new_table, ret, calls,
               history>>
win_vars == <<HAS_INIT, win_luas, win_calls, win_last>>
fn_vars == <<fn_in, fn_out>>
vars == <<engine_vars, shim_vars, win_vars, fn_vars>>

(***************************************************************************)
(* Bounds of the model.                                                    *)
(***************************************************************************)
\* Largest number of patches in a catalog.
MaxPatches == 2
\* Largest number of calls: loads of one chunk, loads and reloads of one
\* thread, loads on one interpreter state of the Windows shim.
MaxCalls == 2

\* Option<T>: None is the empty sequence, Some(x) the sequence of x alone.
None == <<>>
Some(x) == <<x>>
unwrap(o) == o[1]
\* The outcome of a call that panicked; no text equals it.
Panic == <<"!panic">>

(***************************************************************************)
(* Text engine (the rope, crop::Rope).                                     *)
(***************************************************************************)
NL == "\n"

Max(a, b) == IF a >= b THEN a ELSE b
Min(a, b) == IF a <= b THEN a ELSE b

\* rope.byte_len()
byte_len(rp) == Len(rp)

\* rope.insert(pos, s): s is put before the byte at offset pos (0-based).
insert(rp, pos, s) ==
    SubSeq(rp, 1, pos) \o s \o SubSeq(rp, pos + 1, Len(rp))

\* rope.delete(a..b): the bytes at offsets a .. b-1 are removed.
delete(rp, a, b) ==
    SubSeq(rp, 1, a) \o SubSeq(rp, b + 1, Len(rp))

\* rope.byte_slice(a..b)
byte_slice(rp, a, b) == SubSeq(rp, a + 1, b)

\* The offsets (0-based) just after each line terminator of the text.
LineStarts(rp) == {0} \cup {i \in 1..Len(rp) : rp[i] = NL}

\* rope.line_len(): a trailing terminator does not open a further line.
line_len(rp) ==
    Cardinality({i \in 1..Len(rp) : rp[i] = NL})
      + (IF Len(rp) > 0 /\ rp[Len(rp)] # NL THEN 1 ELSE 0)

\* rope.byte_of_line(n): the offset of the first byte of line n (0-based);
\* n = line_len designates the end of the buffer.
byte_of_line(rp, n) ==
    IF n >= line_len(rp) THEN Len(rp)
    ELSE CHOOSE b \in LineStarts(rp) :
             Cardinality({c \in LineStarts(rp) : c < b}) = n

\* rope.line_of_byte(b): the number of terminators before offset b.
line_of_byte(rp, b) ==
    Cardinality({i \in 1..Min(b, Len(rp)) : rp[i] = NL})

\* rope.raw_lines(): the lines of the text, terminators included.
raw_lines(rp) ==
    [n \in 1..line_len(rp) |->
        byte_slice(rp, byte_of_line(rp, n - 1), byte_of_line(rp, n))]

\* str::split_inclusive('\n') agrees with raw_lines on text whose only line
\* terminator is "\n".
split_inclusive(s) == raw_lines(s)

RECURSIVE concat(_)
concat(ss) == IF ss = <<>> THEN <<>> ELSE Head(ss) \o concat(Tail(ss))

IsSpace(c) == c \in {" ", "\t", NL}

RECURSIVE trim_start(_)
trim_start(s) ==
    IF s # <<>> /\ IsSpace(Head(s)) THEN trim_start(Tail(s)) ELSE s

RECURSIVE trim_end(_)
trim_end(s) ==
    IF s # <<>> /\ IsSpace(s[Len(s)])
    THEN trim_end(SubSeq(s, 1, Len(s) - 1))
    ELSE s

\* str::trim()
trim(s) == trim_end(trim_start(s))

\* The leading run of spaces only.
RECURSIVE leading_indent_Spaces(_)
leading_indent_Spaces(s) ==
    IF s # <<>> /\ Head(s) = " "
    THEN <<Head(s)>> \o leading_indent_Spaces(Tail(s))
    ELSE <<>>

\* The leading run of spaces and tabs of a line.
RECURSIVE leading_indent(_)
leading_indent(s) ==
    IF s # <<>> /\ Head(s) \in {" ", "\t"}
    THEN <<Head(s)>> \o leading_indent(Tail(s))
    ELSE <<>>

\* usize::saturating_add_signed, for values far below usize::MAX.
saturating_add_signed(x, d) == IF x + d < 0 THEN 0 ELSE x + d

(***************************************************************************)
(* Glob matcher (wildmatch::WildMatch): `?` is one character, `*` any run. *)
(***************************************************************************)
RECURSIVE WildMatches(_, _)
WildMatches(pat, s) ==
    IF pat = <<>> THEN s = <<>>
    ELSE IF Head(pat) = "*"
         THEN \/ WildMatches(Tail(pat), s)
              \/ s # <<>> /\ WildMatches(pat, Tail(s))
    ELSE IF s = <<>> THEN FALSE
    ELSE /\ Head(pat) = "?" \/ Head(pat) = Head(s)
         /\ WildMatches(Tail(pat), Tail(s))

(***************************************************************************)
(* Variable interpolator.                                                  *)
(***************************************************************************)
\* char::is_ascii_alphanumeric() || c == '_', over the characters the model
\* uses (lower-case letters and the digits 0 and 1).
IsWord(c) ==
    c \in {"a", "b", "c", "d", "e", "f", "g", "h", "i", "j", "k", "l", "m",
           "n", "o", "p", "q", "r", "s", "t", "u", "v", "w", "x", "y", "z",
           "0", "1", "_"}

\* The length of the run of word characters of s that starts at index i.
RECURSIVE WordRun(_, _)
WordRun(s, i) ==
    IF i <= Len(s) /\ IsWord(s[i]) THEN 1 + WordRun(s, i + 1) ELSE 0

\* Whether the token regex matches at index i of the line, and the name.
TokenAt(line, i) ==
    /\ i <= Len(line) /\ line[i] = "{"
    /\ WordRun(line, i + 1) > 0
    /\ i + 1 + WordRun(line, i + 1) <= Len(line)
    /\ line[i + 1 + WordRun(line, i + 1)] = "}"

TokenName(line, i) == SubSeq(line, i + 1, i + WordRun(line, i + 1))

\* replace_all that scans the text it has substituted once more.
RECURSIVE InterpFrom_Rescan(_, _, _)
InterpFrom_Rescan(line, i, variables) ==
    IF i > Len(line) THEN <<>>
    ELSE IF TokenAt(line, i)
         THEN LET nm == TokenName(line, i)
              IN IF nm \in DOMAIN variables
                 THEN InterpFrom_Rescan(
                          variables[nm] \o SubSeq(line, i + 2 + Len(nm), Len(line)),
                          1, variables)
                 ELSE Panic
    ELSE LET rest == InterpFrom_Rescan(line, i + 1, variables)
         IN IF rest = Panic THEN Panic ELSE <<line[i]>> \o rest

\* Regex::replace_all over one line, scanning from index i: leftmost
\* non-overlapping tokens, the replacement never scanned again.  A name
\* missing from variables makes the closure panic.
RECURSIVE InterpFrom(_, _, _)
InterpFrom(line, i, variables) ==
    IF i > Len(line) THEN <<>>
    ELSE IF TokenAt(line, i)
         THEN LET nm == TokenName(line, i)
                  rest == IF nm \in DOMAIN variables
                          THEN InterpFrom(line, i + 2 + Len(nm), variables)
                          ELSE Panic
              IN IF rest = Panic THEN Panic ELSE variables[nm] \o rest
    ELSE LET rest == InterpFrom(line, i + 1, variables)
         IN IF rest = Panic THEN Panic ELSE <<line[i]>> \o rest

apply_var_interp(line, variables) == InterpFrom(line, 1, variables)

\* str::lines(): the lines of s, terminators removed.
lines(s) ==
    [n \in 1..line_len(s) |->
        LET l == raw_lines(s)[n]
        IN IF l # <<>> /\ l[Len(l)] = NL THEN SubSeq(l, 1, Len(l) - 1) ELSE l]

(***************************************************************************)
(* Patch model.  A catalog entry is a record [patch, prio]; a patch is a   *)
(* record whose kind field is "module", "copy", "pattern" or "regex".      *)
(* A Target is the sequence of its strings: Single(s) is <<s>>.            *)
(***************************************************************************)
\* Target::can_apply
can_apply(target_of_patch, target) ==
    \E i \in DOMAIN target_of_patch : target_of_patch[i] = target

\* Target::insert_into
insert_into(target_of_patch, targets) ==
    targets \cup {target_of_patch[i] : i \in DOMAIN target_of_patch}

\* str::strip_prefix('@').unwrap_or(target)
strip_at(nm) == IF nm # <<>> /\ Head(nm) = "@" THEN Tail(nm) ELSE nm

(***************************************************************************)
(* Debug/dump layer: byte regions.                                         *)
(***************************************************************************)
ByteRegion(start, end, delta) == [start |-> start, end |-> end, delta |-> delta]

\* A straddling region that is not adjusted at all.
ByteRegion_adjust_NoStraddle(r, edit_pos, delta) ==
    IF edit_pos <= r.start
    THEN [r EXCEPT !.start = saturating_add_signed(r.start, delta),
                   !.end = saturating_add_signed(r.end, delta)]
    ELSE r

\* The first test strict: an edit at the very start of the region is taken
\* for an edit inside it.
ByteRegion_adjust_Strict(r, edit_pos, delta) ==
    IF edit_pos < r.start
    THEN [r EXCEPT !.start = saturating_add_signed(r.start, delta),
                   !.end = saturating_add_signed(r.end, delta)]
    ELSE IF edit_pos < r.end
    THEN [r EXCEPT !.end = saturating_add_signed(r.end, delta)]
    ELSE r

\* ByteRegion::adjust
ByteRegion_adjust(r, edit_pos, delta) ==
    IF edit_pos <= r.start
    THEN [r EXCEPT !.start = saturating_add_signed(r.start, delta),
                   !.end = saturating_add_signed(r.end, delta)]
    ELSE IF edit_pos < r.end
    THEN [r EXCEPT !.end = saturating_add_signed(r.end, delta)]
    ELSE r

\* ByteDebugEntry::adjust
ByteDebugEntry_adjust(e, edit_pos, delta) ==
    [e EXCEPT !.regions =
        [i \in DOMAIN e.regions |-> ByteRegion_adjust(e.regions[i], edit_pos, delta)]]

\* The loop of apply_patches that adjusts every previous entry by each
\* region of the new entry, in the order of the regions.
RECURSIVE AdjustAll(_, _)
AdjustAll(entries, regions) ==
    IF regions = <<>> THEN entries
    ELSE AdjustAll(
           [j \in DOMAIN entries |->
               ByteDebugEntry_adjust(entries[j], Head(regions).start, Head(regions).delta)],
           Tail(regions))

ByteDebugEntry(patch_type, regions, warned) ==
    [patch_type |-> patch_type, regions |-> regions, warned |-> warned]

\* PatchDebug::from_byte_entries: 1-based inclusive line regions.
from_byte_entries(bentries, rp) ==
    [j \in DOMAIN bentries |->
        [patch_type |-> bentries[j].patch_type,
         regions |->
            [i \in DOMAIN bentries[j].regions |->
                LET r == bentries[j].regions[i]
                IN [start_line |-> line_of_byte(rp, r.start) + 1,
                    end_line |-> line_of_byte(rp, saturating_add_signed(r.end, -1)) + 1]]]]

(***************************************************************************)
(* Copy patch.                                                             *)
(***************************************************************************)
\* The texts a copy patch merges, in the order the code visits them: each
\* source's contents, then the payload.
CopyItems(p) == p.sources \o (IF p.payload = None THEN <<>> ELSE <<unwrap(p.payload)>>)

\* One item put onto the buffer: a "\n" and then the text, both inserted at
\* offset 0 (Prepend) or both at the end of the buffer (Append).
CopyInsert(position, rp, text) ==
    IF position = "Prepend"
    THEN insert(insert(rp, 0, <<NL>>), 0, text)
    ELSE LET r1 == insert(rp, byte_len(rp), <<NL>>)
         IN insert(r1, byte_len(r1), text)

RECURSIVE CopyFold(_, _, _)
CopyFold(position, rp, items) ==
    IF items = <<>> THEN rp
    ELSE CopyFold(position, CopyInsert(position, rp, Head(items)), Tail(items))

RECURSIVE SumLenPlus1(_)
SumLenPlus1(items) ==
    IF items = <<>> THEN 0 ELSE Len(Head(items)) + 1 + SumLenPlus1(Tail(items))

\* CopyPatch::apply: [rope, entry], entry = None when the target differs.
CopyPatch_apply(p, target, rp) ==
    IF ~can_apply(p.target, target) THEN [rope |-> rp, entry |-> None]
    ELSE LET new_rope == CopyFold(p.position, rp, CopyItems(p))
             before == IF p.position = "Prepend" THEN SumLenPlus1(CopyItems(p)) ELSE 0
             after == IF p.position = "Append" THEN SumLenPlus1(CopyItems(p)) ELSE 0
             len == byte_len(new_rope)
             byte_regions ==
                 (IF before # 0 THEN <<ByteRegion(0, before, before)>> ELSE <<>>)
                 \o (IF after # 0 THEN <<ByteRegion(len - after, len, after)>> ELSE <<>>)
         IN [rope |-> new_rope,
             entry |-> Some(ByteDebugEntry("copy", byte_regions, FALSE))]

(***************************************************************************)
(* Pattern patch.                                                          *)
(***************************************************************************)
\* Whether the window of rope lines starting at line_index (0-based) matches.
WindowMatches(rope_lines, wm_lines, line_index) ==
    \A k \in 1..Len(wm_lines) :
        WildMatches(wm_lines[k], trim(rope_lines[line_index + k]))

\* A scan that advances by one line after a hit as well.
RECURSIVE ScanMatches_Overlapping(_, _, _, _)
ScanMatches_Overlapping(rope_lines, wm_lines, match_indent, line_index) ==
    IF line_index + Len(wm_lines) > Len(rope_lines) THEN <<>>
    ELSE IF WindowMatches(rope_lines, wm_lines, line_index)
    THEN <<[line_idx |-> line_index,
            indent |-> IF match_indent
                       THEN leading_indent(rope_lines[line_index + 1])
                       ELSE <<>>]>>
         \o ScanMatches_Overlapping(rope_lines, wm_lines, match_indent, line_index + 1)
    ELSE ScanMatches_Overlapping(rope_lines, wm_lines, match_indent, line_index + 1)

\* The scan loop: the matches as <<line_index, indent>>, in buffer order.
RECURSIVE ScanMatches(_, _, _, _)
ScanMatches(rope_lines, wm_lines, match_indent, line_index) ==
    IF line_index + Len(wm_lines) > Len(rope_lines) THEN <<>>
    ELSE IF WindowMatches(rope_lines, wm_lines, line_index)
    THEN <<[line_idx |-> line_index,
            indent |-> IF match_indent
                       THEN leading_indent(rope_lines[line_index + 1])
                       ELSE <<>>]>>
         \o ScanMatches(rope_lines, wm_lines, match_indent, line_index + Len(wm_lines))
    ELSE ScanMatches(rope_lines, wm_lines, match_indent, line_index + 1)

\* Vec::truncate ignored: every match is kept.
truncate_Ignored(v, n) == v

\* Vec::truncate
truncate(v, n) == IF Len(v) > n THEN SubSeq(v, 1, n) ELSE v

\* The matches kept once `times` has been taken into account.
ApplyTimes(matches, times) ==
    IF times # None /\ Len(matches) > unwrap(times)
    THEN truncate(matches, unwrap(times))
    ELSE matches

\* The payload with the indent put before each of its lines, and a final
\* "\n" when the configured payload does not end with one.
PatternPayload(payload, indent) ==
    LET parts == split_inclusive(payload)
        joined == concat([k \in DOMAIN parts |-> indent \o parts[k]])
    IN IF payload # <<>> /\ payload[Len(payload)] = NL
       THEN joined ELSE joined \o <<NL>>

\* The edit loop over the kept matches: the state is the rope, the running
\* line_delta and the regions recorded so far.
RECURSIVE PatternEdits(_, _, _, _)
PatternEdits(p, n, matches, st) ==
    IF matches = <<>> THEN st
    ELSE LET m == Head(matches)
             adjusted_line_idx == saturating_add_signed(m.line_idx, st.line_delta)
             start == byte_of_line(st.rope, adjusted_line_idx)
             end == byte_of_line(st.rope, adjusted_line_idx + n)
             payload == PatternPayload(p.payload, m.indent)
             payload_lines == line_len(payload)
             payload_bytes == Len(payload)
             next ==
               CASE p.position = "Before" ->
                      [rope |-> insert(st.rope, start, payload),
                       regions |-> Append(st.regions,
                           ByteRegion(start, start + payload_bytes, payload_bytes)),
                       line_delta |-> st.line_delta + payload_lines]
                 [] p.position = "After" ->
                      [rope |-> insert(st.rope, end, payload),
                       regions |-> Append(st.regions,
                           ByteRegion(end, end + payload_bytes, payload_bytes)),
                       line_delta |-> st.line_delta + payload_lines]
                 [] p.position = "At" ->
                      [rope |-> insert(delete(st.rope, start, end), start, payload),
                       regions |-> Append(st.regions,
                           ByteRegion(start, start + payload_bytes,
                                      payload_bytes - (end - start))),
                       line_delta |-> st.line_delta + payload_lines - n]
         IN PatternEdits(p, n, Tail(matches), next)

\* PatternPatch::apply: [rope, entry, found], entry = None when the target
\* differs; found is the number of matches of the scan.
PatternPatch_apply(p, target, rp) ==
    IF ~can_apply(p.target, target)
    THEN [rope |-> rp, entry |-> None, found |-> 0]
    ELSE LET pl == lines(p.pattern)
             wm_lines == [k \in DOMAIN pl |-> trim(pl[k])]
             all == IF wm_lines = <<>> THEN <<>>
                    ELSE ScanMatches(raw_lines(rp), wm_lines, p.match_indent, 0)
             kept == ApplyTimes(all, p.times)
             st == PatternEdits(p, Len(wm_lines), kept,
                       [rope |-> rp, regions |-> <<>>, line_delta |-> 0])
         IN IF all = <<>>
            THEN [rope |-> rp,
                  entry |-> Some(ByteDebugEntry("pattern", <<>>, TRUE)),
                  found |-> 0]
            ELSE [rope |-> st.rope,
                  entry |-> Some(ByteDebugEntry("pattern", st.regions,
                               p.times # None /\ Len(all) # unwrap(p.times))),
                  found |-> Len(all)]

(***************************************************************************)
(* Regex patch.  The patterns of the model are the regexes `pre(grp)post`  *)
(* whose three parts are literal text: group 0 is the whole match and      *)
(* group 1 the span of grp.                                                *)
(***************************************************************************)
RegexLiteral(pattern) == pattern.pre \o pattern.grp \o pattern.post

\* Regex::captures_iter: the leftmost non-overlapping matches from offset i,
\* each a pair of group spans [start, end) in the scanned buffer.
RECURSIVE captures_iter(_, _, _)
captures_iter(pattern, rp, i) ==
    LET lit == RegexLiteral(pattern)
    IN IF lit = <<>> \/ i + Len(lit) > Len(rp) THEN <<>>
       ELSE IF byte_slice(rp, i, i + Len(lit)) = lit
       THEN <<[g0 |-> [start |-> i, end |-> i + Len(lit)],
               g1 |-> [start |-> i + Len(pattern.pre),
                       end |-> i + Len(pattern.pre) + Len(pattern.grp)]]>>
            \o captures_iter(pattern, rp, i + Len(lit))
       ELSE captures_iter(pattern, rp, i + 1)

IsDigit(c) == c \in {"0", "1"}

\* The decimal value of a run of digits.
RECURSIVE DigitsValue(_)
DigitsValue(ds) ==
    IF ds = <<>> THEN 0
    ELSE 10 * DigitsValue(SubSeq(ds, 1, Len(ds) - 1))
         + (IF ds[Len(ds)] = "1" THEN 1 ELSE 0)

\* Captures::get_group(index): None for a group the pattern does not have.
get_group(groups, index) ==
    IF index = 0 THEN Some(groups.g0)
    ELSE IF index = 1 THEN Some(groups.g1)
    ELSE None

\* The text a capture reference copies: the group's span, shifted by the
\* running delta, read from the current rope.  The closure unwraps the
\* group, so a reference to a missing group panics.
GroupText(groups, index, rp, delta) ==
    IF get_group(groups, index) = None THEN Panic
    ELSE LET span == unwrap(get_group(groups, index))
         IN byte_slice(rp, span.start + delta, span.end + delta)

\* interpolate::string from index i of the template: `$$` is a literal `$`,
\* `$` followed by a run of word characters is a reference (an index when
\* the run is all digits, otherwise a name, and the model's patterns have no
\* named group, so a name appends nothing), any other `$` stands for itself.
RECURSIVE interpolate_string(_, _, _, _, _)
interpolate_string(tpl, i, groups, rp, delta) ==
    IF i > Len(tpl) THEN <<>>
    ELSE IF tpl[i] # "$"
    THEN LET rest == interpolate_string(tpl, i + 1, groups, rp, delta)
         IN IF rest = Panic THEN Panic ELSE <<tpl[i]>> \o rest
    ELSE IF i < Len(tpl) /\ tpl[i + 1] = "$"
    THEN LET rest == interpolate_string(tpl, i + 2, groups, rp, delta)
         IN IF rest = Panic THEN Panic ELSE <<"$">> \o rest
    ELSE IF WordRun(tpl, i + 1) = 0
    THEN LET rest == interpolate_string(tpl, i + 1, groups, rp, delta)
         IN IF rest = Panic THEN Panic ELSE <<"$">> \o rest
    ELSE LET run == SubSeq(tpl, i + 1, i + WordRun(tpl, i + 1))
             text == IF \A k \in DOMAIN run : IsDigit(run[k])
                     THEN GroupText(groups, DigitsValue(run), rp, delta)
                     ELSE <<>>
             rest == IF text = Panic THEN Panic
                     ELSE interpolate_string(tpl, i + 1 + Len(run), groups, rp, delta)
         IN IF rest = Panic THEN Panic ELSE text \o rest

\* The whole match taken as the root capture whatever root_capture says.
RootGroup_Whole(p, groups) == Some(groups.g0)

\* The root capture: root_capture with every `$` removed, or "0"; an index
\* when it parses as a number, otherwise a group name (none exists).
RootGroup(p, groups) ==
    LET raw == IF p.root_capture = None THEN <<"0">> ELSE unwrap(p.root_capture)
        group_name == SelectSeq(raw, LAMBDA c : c # "$")
    IN IF group_name # <<>> /\ \A k \in DOMAIN group_name : IsDigit(group_name[k])
       THEN get_group(groups, DigitsValue(group_name))
       ELSE None

\* The left guard reading the byte before the target's start whatever the
\* position.
GuardLeft_AtStart(position, payload, rp, target_start, target_end) ==
    IF payload # <<>> /\ IsWord(Head(payload))
       /\ target_start > 0 /\ IsWord(rp[target_start])
    THEN <<" ">> \o payload ELSE payload

\* The identifier-boundary guard at the left and at the right edge.
GuardLeft(position, payload, rp, target_start, target_end) ==
    LET pre_pt == IF position = "After" THEN target_end ELSE target_start
    IN IF payload # <<>> /\ IsWord(Head(payload))
          /\ pre_pt > 0 /\ IsWord(rp[pre_pt])
       THEN <<" ">> \o payload ELSE payload

GuardRight(position, payload, rp, target_start, target_end) ==
    LET post_pt == IF position = "Before" THEN target_start ELSE target_end
    IN IF payload # <<>> /\ IsWord(payload[Len(payload)])
          /\ post_pt < byte_len(rp) /\ IsWord(rp[post_pt + 1])
       THEN payload \o <<" ">> ELSE payload

\* The region a regex edit records: the inserted payload and its delta.
RegexRegion(position, target_start, target_end, new_len) ==
    CASE position = "Before" ->
           ByteRegion(target_start, target_start + new_len, new_len)
      [] position = "After" ->
           ByteRegion(target_end, target_end + new_len, new_len)
      [] position = "At" ->
           ByteRegion(target_start, target_start + new_len,
                      new_len - (target_end - target_start))

\* The edit loop over the kept captures: the state is the rope, the running
\* byte delta, the regions and whether a panic occurred.
RECURSIVE RegexEdits(_, _, _)
RegexEdits(p, captures, st) ==
    IF captures = <<>> \/ st.panicked THEN st
    ELSE LET groups == Head(captures)
             line_prepend ==
                 interpolate_string(p.line_prepend, 1, groups, st.rope, st.delta)
             target_group == RootGroup(p, groups)
             prefixed ==
                 IF line_prepend = Panic THEN Panic
                 ELSE LET parts == split_inclusive(p.payload)
                      IN concat([k \in DOMAIN parts |-> line_prepend \o parts[k]])
             interpolated ==
                 IF prefixed = Panic THEN Panic
                 ELSE interpolate_string(prefixed, 1, groups, st.rope, st.delta)
         IN IF target_group = None \/ interpolated = Panic
            THEN [st EXCEPT !.panicked = TRUE]
            ELSE LET target_start == unwrap(target_group).start + st.delta
                     target_end == unwrap(target_group).end + st.delta
                     payload ==
                         GuardRight(p.position,
                             GuardLeft(p.position, interpolated, st.rope,
                                       target_start, target_end),
                             st.rope, target_start, target_end)
                     new_len == Len(payload)
                     old_len == target_end - target_start
                     new_rope ==
                       CASE p.position = "Before" -> insert(st.rope, target_start, payload)
                         [] p.position = "After" -> insert(st.rope, target_end, payload)
                         [] p.position = "At" ->
                              insert(delete(st.rope, target_start, target_end),
                                     target_start, payload)
                     new_delta ==
                       IF p.position = "At" THEN st.delta - old_len + new_len
                       ELSE st.delta + new_len
                 IN RegexEdits(p, Tail(captures),
                        [rope |-> new_rope, delta |-> new_delta,
                         regions |-> Append(st.regions,
                             RegexRegion(p.position, target_start, target_end, new_len)),
                         panicked |-> FALSE])

\* RegexPatch::apply: [rope, entry, found, panicked]; entry = None when the
\* call returns false (target differs, or no match).
RegexPatch_apply(p, target, rp) ==
    IF p.target # target
    THEN [rope |-> rp, entry |-> None, found |-> 0, panicked |-> FALSE]
    ELSE LET all == captures_iter(p.pattern, rp, 0)
             kept == ApplyTimes(all, p.times)
             st == RegexEdits(p, kept,
                     [rope |-> rp, delta |-> 0, regions |-> <<>>, panicked |-> FALSE])
         IN IF all = <<>>
            THEN [rope |-> rp, entry |-> None, found |-> 0, panicked |-> FALSE]
            ELSE [rope |-> st.rope,
                  entry |-> Some(ByteDebugEntry("regex", st.regions,
                               p.times # None /\ Len(all) # unwrap(p.times))),
                  found |-> Len(all), panicked |-> st.panicked]

(***************************************************************************)
(* Module patch and the interpreter state.  An interpreter state is a      *)
(* record [print, preload, inits]: whether the print override is           *)
(* installed, the names registered in package.preload, and how many times  *)
(* the per-state init has run.  A module's src field tells what the        *)
(* interpreter makes of its source: "ok", "load_fail" or "eval_fail".      *)
(***************************************************************************)
LuaStateNew == [print |-> FALSE, preload |-> {}, inits |-> 0]

\* ModulePatch::apply: [ok, lua].
ModulePatch_apply(p, file_name, l) ==
    IF p.before # file_name THEN [ok |-> FALSE, lua |-> l]
    ELSE IF p.src = "load_fail" THEN [ok |-> FALSE, lua |-> l]
    ELSE IF p.load_now /\ p.src = "eval_fail" THEN [ok |-> FALSE, lua |-> l]
    ELSE [ok |-> TRUE, lua |-> [l EXCEPT !.preload = @ \cup {p.name}]]

\* sys::is_module_preloaded
is_module_preloaded(l, module) == module \in l.preload

LOVELY == <<"l", "o", "v", "e", "l", "y">>

\* sys::preload_module
preload_module(l, module) == [l EXCEPT !.preload = @ \cup {module}]

(***************************************************************************)
(* Patch table.                                                            *)
(***************************************************************************)
\* HashMap::extend: the bindings of b win.
extend(a, b) ==
    [k \in DOMAIN a \cup DOMAIN b |-> IF k \in DOMAIN b THEN b[k] ELSE a[k]]

NoVars == [k \in {} |-> <<>>]

\* The targets one patch contributes to the index.
PatchTargets(patch, targets) ==
    CASE patch.kind = "module" -> targets \cup {patch.before}
      [] patch.kind = "regex" -> targets \cup {patch.target}
      [] OTHER -> insert_into(patch.target, targets)

\* loader::process_patches over raw entries [patch, prio, vars].
RECURSIVE process_patches(_, _)
process_patches(raw_patches, acc) ==
    IF raw_patches = <<>> THEN acc
    ELSE LET r == Head(raw_patches)
         IN process_patches(Tail(raw_patches),
               [targets |-> PatchTargets(r.patch, acc.targets),
                patches |-> Append(acc.patches, [patch |-> r.patch, prio |-> r.prio]),
                vars |-> extend(acc.vars, r.vars)])

\* PatchTable::default
PatchTable_default ==
    [targets |-> {}, glob_targets |-> <<>>, patches |-> <<>>, vars |-> NoVars]

\* PatchTable::load on a mod directory whose patch files parse.
PatchTable_load(raw_patches) ==
    LET r == process_patches(raw_patches,
                 [targets |-> {}, patches |-> <<>>, vars |-> NoVars])
    IN [targets |-> r.targets, glob_targets |-> <<>>,
        patches |-> r.patches, vars |-> r.vars]

\* PatchTable::needs_patching
needs_patching(t, target_name) ==
    LET target == strip_at(target_name)
    IN IF target \in t.targets THEN TRUE
       ELSE \E i \in DOMAIN t.glob_targets : WildMatches(t.glob_targets[i], target)

\* A sort that puts an element before the equal keys already placed.
RECURSIVE sorted_by_key_Unstable(_, _)
sorted_by_key_Unstable(idxs, patches) ==
    IF idxs = <<>> THEN <<>>
    ELSE LET rest == sorted_by_key_Unstable(Tail(idxs), patches)
             h == Head(idxs)
             le == SelectSeq(rest, LAMBDA j : patches[j].prio <= patches[h].prio)
             gt == SelectSeq(rest, LAMBDA j : patches[j].prio > patches[h].prio)
         IN le \o <<h>> \o gt

\* Itertools::sorted_by_key on the priority: a stable sort.
RECURSIVE sorted_by_key(_, _)
sorted_by_key(idxs, patches) ==
    IF idxs = <<>> THEN <<>>
    ELSE LET rest == sorted_by_key(Tail(idxs), patches)
             h == Head(idxs)
             lt == SelectSeq(rest, LAMBDA j : patches[j].prio < patches[h].prio)
             ge == SelectSeq(rest, LAMBDA j : patches[j].prio >= patches[h].prio)
         IN lt \o <<h>> \o ge

\* The indices of table.patches, in storage order.
Indices(patches) == [i \in 1..Len(patches) |-> i]

\* The indices, in storage order, of the patches of one kind.
OfKind(t, kind) ==
    SelectSeq(Indices(t.patches), LAMBDA i : t.patches[i].patch.kind = kind)

\* The three streams of apply_patches.
module_patches(t) ==
    sorted_by_key(SelectSeq(OfKind(t, "module"),
                            LAMBDA i : t.patches[i].patch.load_now),
                  t.patches)
copy_patches(t) == sorted_by_key(OfKind(t, "copy"), t.patches)
pattern_and_regex(t) ==
    sorted_by_key(OfKind(t, "pattern") \o OfKind(t, "regex"), t.patches)

\* The module patches the per-state init visits.
init_module_patches(t) ==
    sorted_by_key(SelectSeq(OfKind(t, "module"),
                            LAMBDA i : ~t.patches[i].patch.load_now),
                  t.patches)

\* The loop of the per-state init over its module patches.
RECURSIVE InitModules(_, _, _)
InitModules(t, idxs, l) ==
    IF idxs = <<>> THEN l
    ELSE InitModules(t, Tail(idxs),
             ModulePatch_apply(t.patches[Head(idxs)].patch, <<>>, l).lua)

\* The per-state init of apply_buffer_patches: nothing when `lovely` is
\* preloaded, else the print override, the metadata module and the module
\* patches that are not load_now.
PerStateInit(t, l) ==
    IF is_module_preloaded(l, LOVELY) THEN l
    ELSE InitModules(t, init_module_patches(t),
             preload_module([l EXCEPT !.print = TRUE, !.inits = @ + 1], LOVELY))
(***************************************************************************)
(* The inputs: one chunk, a few buffers, and catalogs of at most           *)
(* MaxPatches entries drawn from a pool of patches.                        *)
(***************************************************************************)
ChunkName == <<"@", "m">>
M == <<"m">>
O == <<"o">>

Buffers ==
    { <<"a", NL, " ", "a", NL, "b">>,
      <<"{", "v", "}", NL, "a", NL>>,
      <<"b">> }

PatternOf(target, pattern, position, payload, times) ==
    [kind |-> "pattern", target |-> <<target>>, pattern |-> pattern,
     position |-> position, payload |-> payload, match_indent |-> TRUE,
     times |-> times]

RegexOf(grp, position, payload, times) ==
    [kind |-> "regex", target |-> M, pattern |-> [pre |-> <<>>, grp |-> grp, post |-> <<>>],
     position |-> position, payload |-> payload, line_prepend |-> <<>>,
     root_capture |-> None, times |-> times]

CopyOf(position, sources, payload) ==
    [kind |-> "copy", target |-> <<M>>, position |-> position,
     sources |-> sources, payload |-> payload]

ModuleOf(nm, before, load_now, src) ==
    [kind |-> "module", name |-> nm, before |-> before, load_now |-> load_now,
     src |-> src]

Entry(patch, prio, variables) == [patch |-> patch, prio |-> prio, vars |-> variables]

VarsV == [k \in {<<"v">>} |-> <<"z">>]
VarsW == [k \in {<<"v">>} |-> <<"w">>]

RawPool ==
    { Entry(PatternOf(M, <<"a">>, "After", <<"x">>, None), 0, NoVars),
      Entry(PatternOf(M, <<"a">>, "After", <<"x">>, None), 1, NoVars),
      Entry(PatternOf(M, <<"a">>, "At", <<"y">>, Some(1)), 0, NoVars),
      Entry(PatternOf(O, <<"a">>, "At", <<"z">>, None), 0, VarsW),
      Entry(PatternOf(<<"*">>, <<"a">>, "After", <<"x">>, None), 0, NoVars),
      Entry(RegexOf(<<"a">>, "At", <<>>, None), 0, NoVars),
      Entry(RegexOf(<<"a">>, "At", <<>>, None), 1, NoVars),
      Entry(RegexOf(<<"a">>, "Before", <<"b", "$", "1">>, Some(1)), 0, NoVars),
      Entry(CopyOf("Append", <<>>, Some(<<"a">>)), 0, VarsV),
      Entry(CopyOf("Append", <<>>, Some(<<"a">>)), 1, VarsV),
      Entry(CopyOf("Prepend", << <<"{", "v", "}">> >>, Some(<<"a">>)), 0, VarsV),
      Entry(ModuleOf(<<"n", "1">>, M, TRUE, "ok"), 0, NoVars),
      Entry(ModuleOf(<<"n", "1">>, M, TRUE, "ok"), 1, NoVars),
      Entry(ModuleOf(<<"n", "2">>, M, FALSE, "ok"), 0, NoVars),
      Entry(ModuleOf(<<"n", "3">>, <<>>, FALSE, "ok"), 0, NoVars),
      Entry(ModuleOf(<<"n", "4">>, M, TRUE, "eval_fail"), 0, NoVars),
      Entry(ModuleOf(<<"n", "5">>, M, TRUE, "load_fail"), 0, NoVars) }

\* The sequences over S of length at most n.
SeqUpTo(S, n) == UNION {[1..k -> S] : k \in 0..n}

Catalogs == SeqUpTo(RawPool, MaxPatches)

(***************************************************************************)
(* One detoured load, step by step.                                        *)
(***************************************************************************)
NoLast == [idx |-> 0, before |-> <<>>, after |-> <<>>, found |-> 0, regions |-> <<>>]

\* A visiting order that leaves the copy patches for the end.
Visiting_CopyLast(t) == module_patches(t) \o pattern_and_regex(t) \o copy_patches(t)

\* The visiting order of apply_patches.
Visiting(t) == module_patches(t) \o copy_patches(t) \o pattern_and_regex(t)

\* The bookkeeping of apply_patches for one returned entry.
Bookkeep(entries, entry) == Append(AdjustAll(entries, entry.regions), entry)

\* Entry of apply_buffer_patches: the per-state init, then the pass-through
\* test; the rewrite starts when the chunk needs patching or dump_all is on.
Begin ==
    /\ pc = "start"
    /\ lua' = PerStateInit(patch_table, lua)
    /\ IF ~needs_patching(patch_table, name) /\ ~dump_all
       THEN /\ pc' = "done"
            /\ handed' = Some(buf)
            /\ UNCHANGED <<queue, rope>>
       ELSE /\ pc' = "patch"
            /\ queue' = Visiting(patch_table)
            /\ rope' = buf
            /\ UNCHANGED handed
    /\ byte_entries' = <<>>
    /\ patch_count' = 0
    /\ applied' = <<>>
    /\ last' = NoLast
    /\ debug' = <<>>
    /\ UNCHANGED <<patch_table, dump_all, name, buf, loads, shim_vars, win_vars, fn_vars>>

\* What every step of the rewrite leaves alone.
StepFrame == UNCHANGED <<patch_table, dump_all, name, buf, handed, debug, loads,
                         shim_vars, win_vars, fn_vars>>

Visit(kind) ==
    /\ pc = "patch"
    /\ queue # <<>>
    /\ patch_table.patches[Head(queue)].patch.kind = kind
    /\ queue' = Tail(queue)

\* The patch_count step of the pattern and regex loop.
CountEntry_Always(entry) == 1

CountEntry(entry) == IF entry.regions # <<>> THEN 1 ELSE 0

\* A module loop that ends the rewrite at the first patch that returns false.
ModuleStep_Stops ==
    /\ pc = "patch"
    /\ queue # <<>>
    /\ patch_table.patches[Head(queue)].patch.kind = "module"
    /\ LET i == Head(queue)
           r == ModulePatch_apply(patch_table.patches[i].patch, strip_at(name), lua)
       IN /\ lua' = r.lua
          /\ patch_count' = IF r.ok THEN patch_count + 1 ELSE patch_count
          /\ applied' = IF r.ok THEN Append(applied, i) ELSE applied
          /\ queue' = IF r.ok THEN Tail(queue) ELSE <<>>
    /\ pc' = pc
    /\ UNCHANGED <<rope, byte_entries, last>>
    /\ StepFrame

\* One turn of the module loop.
ModuleStep ==
    /\ Visit("module")
    /\ LET i == Head(queue)
           r == ModulePatch_apply(patch_table.patches[i].patch, strip_at(name), lua)
       IN /\ lua' = r.lua
          /\ patch_count' = IF r.ok THEN patch_count + 1 ELSE patch_count
          /\ applied' = IF r.ok THEN Append(applied, i) ELSE applied
    /\ pc' = pc
    /\ UNCHANGED <<rope, byte_entries, last>>
    /\ StepFrame

\* One turn of the copy loop.
CopyStep ==
    /\ Visit("copy")
    /\ LET i == Head(queue)
           r == CopyPatch_apply(patch_table.patches[i].patch, strip_at(name), rope)
       IN /\ rope' = r.rope
          /\ IF r.entry = None
             THEN UNCHANGED <<byte_entries, patch_count, applied>>
             ELSE /\ byte_entries' = Bookkeep(byte_entries, unwrap(r.entry))
                  /\ patch_count' = patch_count + 1
                  /\ applied' = Append(applied, i)
    /\ pc' = pc
    /\ UNCHANGED <<lua, last>>
    /\ StepFrame

\* The part of a pattern or regex turn that follows the call of apply.
AfterApply(i, r) ==
    /\ rope' = r.rope
    /\ IF r.entry = None
       THEN UNCHANGED <<byte_entries, patch_count, applied, last>>
       ELSE LET entry == unwrap(r.entry)
            IN /\ byte_entries' = Bookkeep(byte_entries, entry)
               /\ patch_count' = patch_count + CountEntry(entry)
               /\ applied' = IF CountEntry(entry) = 1 THEN Append(applied, i) ELSE applied
               /\ last' = [idx |-> i, before |-> rope, after |-> r.rope,
                           found |-> r.found, regions |-> entry.regions]

\* One turn of the pattern and regex loop on a pattern patch.
PatternStep ==
    /\ Visit("pattern")
    /\ LET i == Head(queue)
       IN AfterApply(i, PatternPatch_apply(patch_table.patches[i].patch,
                                           strip_at(name), rope))
    /\ pc' = pc
    /\ UNCHANGED lua
    /\ StepFrame

\* One turn of the pattern and regex loop on a regex patch; a panic inside
\* apply ends the load.
RegexStep ==
    /\ Visit("regex")
    /\ LET i == Head(queue)
           r == RegexPatch_apply(patch_table.patches[i].patch, strip_at(name), rope)
       IN IF r.panicked
          THEN /\ pc' = "abort"
               /\ UNCHANGED <<rope, byte_entries, patch_count, applied, last>>
          ELSE /\ pc' = pc
               /\ AfterApply(i, r)
    /\ UNCHANGED lua
    /\ StepFrame

\* The variable interpolation of apply_patches, line by line; Panic when a
\* line names a variable the table lacks.
Interpolated(t, rp) ==
    LET ls == split_inclusive(rp)
        out == [k \in DOMAIN ls |-> apply_var_interp(ls[k], t.vars)]
    IN IF \E k \in DOMAIN out : out[k] = Panic THEN Panic ELSE concat(out)

\* The end of apply_patches and of the load: the debug regions, variable
\* interpolation, and the patched bytes handed to the original loader.
Finish ==
    /\ pc = "patch"
    /\ queue = <<>>
    /\ debug' = from_byte_entries(byte_entries, rope)
    /\ LET patched == Interpolated(patch_table, rope)
       IN IF patched = Panic
          THEN pc' = "abort" /\ UNCHANGED handed
          ELSE pc' = "done" /\ handed' = Some(patched)
    /\ UNCHANGED <<patch_table, dump_all, name, buf, queue, rope, byte_entries,
                   patch_count, applied, lua, last, loads, shim_vars, win_vars, fn_vars>>

\* The host loads the same chunk once more on the same interpreter state.
Again ==
    /\ pc = "done"
    /\ loads < MaxCalls
    /\ loads' = loads + 1
    /\ pc' = "start"
    /\ handed' = None
    /\ UNCHANGED <<patch_table, dump_all, name, buf, queue, rope, byte_entries,
                   patch_count, applied, lua, last, debug, shim_vars, win_vars, fn_vars>>

(***************************************************************************)
(* The runtime shared by threads: loads on several interpreter states and  *)
(* reload_patches, around the RwLock that holds the PatchTable.            *)
(***************************************************************************)
Threads == {"t1", "t2"}
States == {"L1", "L2"}

\* What the mod directory can hold: catalogs that parse, and one that does
\* not.
DiskX == [ok |-> TRUE, raw |-> <<Entry(CopyOf("Append", <<>>, Some(<<"a">>)), 0, VarsV)>>]
DiskY == [ok |-> TRUE,
          raw |-> <<Entry(PatternOf(O, <<"a">>, "At", <<"z">>, None), 0, VarsW),
                    Entry(ModuleOf(<<"n", "3">>, <<>>, FALSE, "ok"), 0, NoVars)>>]
DiskBad == [ok |-> FALSE, raw |-> <<>>]
Disks == {DiskX, DiskY, DiskBad}

PanicMessage == "Failed to parse patch file"

\* RwLock::write: granted when no thread holds the lock.  Here the lock is
\* handed out while loads still hold it for reading.
CanWrite_Unlocked(readers) == TRUE

CanWrite(readers) == readers = {}

\* A reload that clears the table when the catalog cannot be rebuilt.
published_after_Cleared(old, result) ==
    IF result = None THEN PatchTable_default ELSE unwrap(result)

\* The table inside the lock when reload_patches returns: a panic of
\* PatchTable::load unwinds before the lock is taken.
published_after(old, result) ==
    IF result = None THEN old ELSE unwrap(result)

\* The load_now module loop of apply_patches, as it acts on the interpreter.
RECURSIVE RewriteModules(_, _, _, _)
RewriteModules(t, idxs, target, l) ==
    IF idxs = <<>> THEN l
    ELSE RewriteModules(t, Tail(idxs), target,
             ModulePatch_apply(t.patches[Head(idxs)].patch, target, l).lua)

Observe(t, field) == seen' = [seen EXCEPT ![t] = Append(@, [field |-> field,
                                                           value |-> table_pub[field]])]

InLoad(t) == tpc[t] \in {"check", "rewrite", "interp", "call"}

ShimFrame == UNCHANGED <<engine_vars, win_vars, fn_vars>>

\* apply_buffer_patches, entry: the read lock and the per-state init.
Enter(t, s) ==
    /\ tpc[t] = "idle"
    /\ calls[t] < MaxCalls
    /\ \A u \in Threads : InLoad(u) => tstate[u] # s
    /\ rlock' = rlock \cup {t}
    /\ tstate' = [tstate EXCEPT ![t] = s]
    /\ luas' = [luas EXCEPT ![s] = PerStateInit(table_pub, @)]
    /\ seen' = [seen EXCEPT ![t] =
                   IF is_module_preloaded(luas[s], LOVELY) THEN <<>>
                   ELSE <<[field |-> "patches", value |-> table_pub.patches]>>]
    /\ tpc' = [tpc EXCEPT ![t] = "check"]
    /\ calls' = [calls EXCEPT ![t] = @ + 1]
    /\ UNCHANGED <<disk, table_pub, new_table, ret, history>>
    /\ ShimFrame

\* apply_buffer_patches, the pass-through test.
Check(t) ==
    /\ tpc[t] = "check"
    /\ Observe(t, "targets")
    /\ tpc' = [tpc EXCEPT ![t] =
                 IF ~needs_patching(table_pub, ChunkName) /\ ~dump_all
                 THEN "call" ELSE "rewrite"]
    /\ UNCHANGED <<disk, table_pub, rlock, tstate, luas, new_table, ret, calls, history>>
    /\ ShimFrame

\* apply_patches, the patch loops.
Rewrite(t) ==
    /\ tpc[t] = "rewrite"
    /\ Observe(t, "patches")
    /\ luas' = [luas EXCEPT ![tstate[t]] =
                  RewriteModules(table_pub, module_patches(table_pub),
                                 strip_at(ChunkName), @)]
    /\ tpc' = [tpc EXCEPT ![t] = "interp"]
    /\ UNCHANGED <<disk, table_pub, rlock, tstate, new_table, ret, calls, history>>
    /\ ShimFrame

\* apply_patches, the variable interpolation.
Interp(t) ==
    /\ tpc[t] = "interp"
    /\ Observe(t, "vars")
    /\ tpc' = [tpc EXCEPT ![t] = "call"]
    /\ UNCHANGED <<disk, table_pub, rlock, tstate, luas, new_table, ret, calls, history>>
    /\ ShimFrame

\* apply_buffer_patches returns: the original loader is called and the read
\* guard dropped.
Return(t) ==
    /\ tpc[t] = "call"
    /\ rlock' = rlock \ {t}
    /\ tpc' = [tpc EXCEPT ![t] = "idle"]
    /\ seen' = [seen EXCEPT ![t] = <<>>]
    /\ UNCHANGED <<disk, table_pub, tstate, luas, new_table, ret, calls, history>>
    /\ ShimFrame

\* reload_patches, PatchTable::load of the mod directory; the result is
\* None when load panics.
ReloadLoad(t) ==
    /\ tpc[t] = "idle"
    /\ calls[t] < MaxCalls
    /\ new_table' = [new_table EXCEPT ![t] =
                       [from |-> disk,
                        result |-> IF disk.ok THEN Some(PatchTable_load(disk.raw))
                                   ELSE None]]
    /\ tpc' = [tpc EXCEPT ![t] = "reloaded"]
    /\ calls' = [calls EXCEPT ![t] = @ + 1]
    /\ UNCHANGED <<disk, table_pub, rlock, tstate, luas, seen, ret, history>>
    /\ ShimFrame

\* reload_patches, the rest: the table swapped under the write lock and
\* true, or the caught panic and false with its message.
ReloadFinish(t) ==
    /\ tpc[t] = "reloaded"
    /\ new_table[t].result # None => CanWrite(rlock)
    /\ table_pub' = published_after(table_pub, new_table[t].result)
    /\ history' = history \cup {table_pub'}
    /\ ret' = [ret EXCEPT ![t] = IF new_table[t].result = None
                                 THEN <<FALSE, PanicMessage>> ELSE <<TRUE>>]
    /\ tpc' = [tpc EXCEPT ![t] = "idle"]
    /\ UNCHANGED <<disk, rlock, tstate, luas, seen, new_table, calls>>
    /\ ShimFrame

\* The user edits the mod directory.
EditDisk ==
    /\ \E d \in Disks : d # disk /\ disk' = d
    /\ UNCHANGED <<table_pub, rlock, tpc, tstate, luas, seen, new_table, ret, calls,
                   history>>
    /\ ShimFrame

(***************************************************************************)
(* The Windows shim: its detour guards the print override with a           *)
(* process-wide once-cell and rewrites against a table set at startup.     *)
(***************************************************************************)
WinNames == {ChunkName, O}

lua_loadbuffer_detour(s, nm) ==
    /\ win_calls[s] < MaxCalls
    /\ HAS_INIT' = TRUE
    /\ win_luas' = [win_luas EXCEPT ![s] =
                      IF ~HAS_INIT THEN [@ EXCEPT !.print = TRUE, !.inits = @ + 1]
                      ELSE @]
    /\ win_calls' = [win_calls EXCEPT ![s] = @ + 1]
    /\ win_last' = [state |-> s, name |-> nm,
                    patched |-> needs_patching(patch_table, nm)]
    /\ UNCHANGED <<engine_vars, shim_vars, fn_vars>>

(***************************************************************************)
(* Initial states and specifications.                                      *)
(***************************************************************************)
EngineStart(t) ==
    /\ patch_table = t
    /\ name = ChunkName
    /\ pc = "start"
    /\ queue = <<>>
    /\ rope = <<>>
    /\ byte_entries = <<>>
    /\ patch_count = 0
    /\ applied = <<>>
    /\ handed = None
    /\ lua = LuaStateNew
    /\ last = NoLast
    /\ debug = <<>>
    /\ loads = 1

ShimStart(t) ==
    /\ disk = DiskX
    /\ table_pub = t
    /\ rlock = {}
    /\ tpc = [t1 \in Threads |-> "idle"]
    /\ tstate = [t1 \in Threads |-> "L1"]
    /\ luas = [s \in States |-> LuaStateNew]
    /\ seen = [t1 \in Threads |-> <<>>]
    /\ new_table = [t1 \in Threads |-> [from |-> DiskX, result |-> None]]
    /\ ret = [t1 \in Threads |-> <<>>]
    /\ calls = [t1 \in Threads |-> 0]
    /\ history = {t}

WinStart ==
    /\ HAS_INIT = FALSE
    /\ win_luas = [s \in States |-> LuaStateNew]
    /\ win_calls = [s \in States |-> 0]
    /\ win_last = [state |-> "L1", name |-> <<>>, patched |-> FALSE]

FnIdle ==
    /\ fn_in = <<>>
    /\ fn_out = None

\* One chunk loaded through the rewrite engine, over every catalog and buffer.
Init ==
    /\ \E c \in Catalogs : EngineStart(PatchTable_load(c))
    /\ dump_all \in BOOLEAN
    /\ buf \in Buffers
    /\ ShimStart(PatchTable_default)
    /\ WinStart
    /\ FnIdle

Next ==
    \/ Begin
    \/ ModuleStep
    \/ CopyStep
    \/ PatternStep
    \/ RegexStep
    \/ Finish
    \/ Again

Spec == Init /\ [][Next]_vars

\* Threads loading chunks and reloading the catalog.
InitShim ==
    /\ EngineStart(PatchTable_default)
    /\ dump_all \in BOOLEAN
    /\ buf = <<>>
    /\ ShimStart(PatchTable_load(DiskX.raw))
    /\ WinStart
    /\ FnIdle

NextShim ==
    \/ \E t \in Threads, s \in States : Enter(t, s)
    \/ \E t \in Threads : Check(t)
    \/ \E t \in Threads : Rewrite(t)
    \/ \E t \in Threads : Interp(t)
    \/ \E t \in Threads : Return(t)
    \/ \E t \in Threads : ReloadLoad(t)
    \/ \E t \in Threads : ReloadFinish(t)
    \/ EditDisk

SpecShim == InitShim /\ [][NextShim]_vars

\* The Windows shim detouring loads on several interpreter states.
InitWin ==
    /\ \E d \in {DiskX, DiskY} : EngineStart(PatchTable_load(d.raw))
    /\ dump_all = FALSE
    /\ buf \in Buffers
    /\ ShimStart(PatchTable_default)
    /\ WinStart
    /\ FnIdle

NextWin == \E s \in States, nm \in WinNames : lua_loadbuffer_detour(s, nm)

SpecWin == InitWin /\ [][NextWin]_vars

(***************************************************************************)
(* Properties of the rewrite of one load (Spec).                           *)
(***************************************************************************)
Target == strip_at(name)
Kind(i) == patch_table.patches[i].patch.kind
Prio(i) == patch_table.patches[i].prio
Stage(i) == CASE Kind(i) = "module" -> 1 [] Kind(i) = "copy" -> 2 [] OTHER -> 3
Rewritten == needs_patching(patch_table, name) \/ dump_all

\* Whether a patch is aimed at the chunk of the load.
Accepts(p) ==
    CASE p.kind = "module" -> p.load_now /\ p.before = Target
      [] p.kind = "regex" -> p.target = Target
      [] OTHER -> can_apply(p.target, Target)

NoPatchMatches ==
    \A i \in DOMAIN patch_table.patches : ~Accepts(patch_table.patches[i].patch)

\* C1: when no patch of the catalog matches the chunk, every load of it ends
\* with the original loader receiving exactly the bytes the host handed in.
C1_PassThrough ==
    NoPatchMatches => /\ pc # "abort"
                      /\ pc = "done" => handed = Some(buf)

\* C6: the counted applications of one load run load_now modules first, then
\* copies, then patterns and regexes; by ascending priority inside a stage; a
\* pattern before a regex of the same priority; and the bytes handed over are
\* interpolated after the last patch.
C6_StageOrder ==
    /\ \A j, k \in DOMAIN applied :
          j < k =>
             /\ Stage(applied[j]) <= Stage(applied[k])
             /\ Stage(applied[j]) = Stage(applied[k]) =>
                   /\ Prio(applied[j]) <= Prio(applied[k])
                   /\ Prio(applied[j]) = Prio(applied[k]) =>
                         ~(Kind(applied[j]) = "regex" /\ Kind(applied[k]) = "pattern")
    /\ (pc = "done" /\ Rewritten) =>
          /\ queue = <<>>
          /\ \A n \in DOMAIN unwrap(handed) : unwrap(handed)[n] # "{"

\* A finished load whose two applications ran in stage order against their
\* priorities: the earlier stage had the higher priority.
C6_Witness ==
    /\ pc = "done"
    /\ Len(applied) = 2
    /\ Stage(applied[1]) < Stage(applied[2])
    /\ Prio(applied[1]) > Prio(applied[2])

\* C7: two counted applications of the same kind and priority run in catalog
\* order, and a catalog of pattern patches of one priority leaves the rope
\* that applying them one after the other in catalog order leaves.
C7_InsertionOrder ==
    /\ \A j, k \in DOMAIN applied :
          (j < k /\ Kind(applied[j]) = Kind(applied[k])
                 /\ Prio(applied[j]) = Prio(applied[k])) => applied[j] < applied[k]
    /\ (/\ pc = "done"
        /\ Rewritten
        /\ \A i \in DOMAIN patch_table.patches : Kind(i) = "pattern" /\ Prio(i) = Prio(1))
       => LET RECURSIVE InOrder(_, _)
              InOrder(i, rp) ==
                  IF i > Len(patch_table.patches) THEN rp
                  ELSE InOrder(i + 1,
                          PatternPatch_apply(patch_table.patches[i].patch, Target, rp).rope)
          IN rope = InOrder(1, buf)

\* Two different pattern patches of one priority, both applied, whose order
\* shows in the output.
C7_Witness ==
    /\ pc = "done"
    /\ Len(applied) = 2
    /\ Kind(applied[1]) = "pattern" /\ Kind(applied[2]) = "pattern"
    /\ Prio(applied[1]) = Prio(applied[2])
    /\ patch_table.patches[1].patch # patch_table.patches[2].patch
    /\ rope # PatternPatch_apply(patch_table.patches[1].patch, Target,
                 PatternPatch_apply(patch_table.patches[2].patch, Target, buf).rope).rope

\* C8: a pattern or regex application with times = t edits at most t
\* matches; when the buffer held more, it edits exactly t, all of them ahead
\* of match t + 1, and the buffer from match t + 1 on is left as it was.
C8_Times ==
    (last.idx # 0 /\ patch_table.patches[last.idx].patch.times # None) =>
       LET p == patch_table.patches[last.idx].patch
           t == unwrap(p.times)
           pl == lines(p.pattern)
           starts ==
               IF p.kind = "pattern"
               THEN LET ms == ScanMatches(raw_lines(last.before),
                                  [k \in DOMAIN pl |-> trim(pl[k])], FALSE, 0)
                    IN [k \in DOMAIN ms |-> byte_of_line(last.before, ms[k].line_idx)]
               ELSE LET cs == captures_iter(p.pattern, last.before, 0)
                    IN [k \in DOMAIN cs |-> cs[k].g0.start]
       IN /\ Len(last.regions) <= t
          /\ Len(starts) > t =>
                LET kept == Len(last.before) - starts[t + 1]
                    cut == Len(last.after) - kept
                IN /\ Len(last.regions) = t
                   /\ cut >= 0
                   /\ \A i \in DOMAIN last.regions : last.regions[i].end <= cut
                   /\ SubSeq(last.after, cut + 1, Len(last.after))
                         = SubSeq(last.before, starts[t + 1] + 1, Len(last.before))

\* An application with times = 1 on a buffer holding two matches.
C8_Witness ==
    /\ last.idx # 0
    /\ patch_table.patches[last.idx].patch.times = Some(1)
    /\ last.found = 2
    /\ Len(last.regions) = 1
    /\ last.after # last.before

\* The byte regions of all entries, and the counted applications that are
\* not module patches.
TotalRegions ==
    LET RECURSIVE Sum(_)
        Sum(es) == IF es = <<>> THEN 0 ELSE Len(Head(es).regions) + Sum(Tail(es))
    IN Sum(byte_entries)
Counted == Len(SelectSeq(applied, LAMBDA i : Kind(i) # "module"))

\* C9, as the claim states it: after a rewrite the byte regions over all
\* debug entries are as many as the counted copy, pattern and regex
\* applications.
C9_RegionsEqualApplications ==
    (pc = "done" /\ Rewritten) => TotalRegions = Counted

\* C9, amended: after a rewrite the counted copy, pattern and regex
\* applications are as many as the copy entries plus the pattern and regex
\* entries that hold a byte region, patch_count is the number of counted
\* applications, and the byte regions of the pattern and regex entries are at
\* least as many as the pattern and regex applications counted.
C9_CountedEntries ==
    (pc = "done" /\ Rewritten) =>
       LET copies == SelectSeq(byte_entries, LAMBDA e : e.patch_type = "copy")
           edits == SelectSeq(byte_entries,
                       LAMBDA e : e.patch_type # "copy" /\ e.regions # <<>>)
           RECURSIVE Sum(_)
           Sum(es) == IF es = <<>> THEN 0 ELSE Len(Head(es).regions) + Sum(Tail(es))
       IN /\ Counted = Len(copies) + Len(edits)
          /\ patch_count = Len(applied)
          /\ Sum(edits) >= Len(edits)

\* A finished rewrite with a counted application, an entry of several
\* regions, and an entry of none.
C9_Witness ==
    /\ pc = "done"
    /\ Counted >= 1
    /\ \E j \in DOMAIN byte_entries : Len(byte_entries[j].regions) >= 2
    /\ \E j \in DOMAIN byte_entries : byte_entries[j].regions = <<>>

\* C10: every stored region starts at 0 or later and ends at the rope's byte
\* length or sooner, after every bookkeeping step of a rewrite.
C10_RegionsInRope ==
    \A j \in DOMAIN byte_entries :
       \A i \in DOMAIN byte_entries[j].regions :
          /\ 0 <= byte_entries[j].regions[i].start
          /\ byte_entries[j].regions[i].end <= byte_len(rope)

\* A replacement that shrank the buffer inside the region of an earlier
\* entry, whose end was pulled back with it.
C10_Witness ==
    /\ Len(byte_entries) = 2
    /\ byte_entries[1].regions # <<>>
    /\ byte_entries[2].regions # <<>>
    /\ byte_entries[2].regions[1].delta < 0
    /\ byte_entries[1].regions[1].start < byte_entries[2].regions[1].start
    /\ byte_entries[2].regions[1].start <= byte_entries[1].regions[1].end
    /\ byte_entries[1].regions[1].end = byte_len(rope)

\* Whether the per-state init of the load's interpreter is complete.
InitComplete ==
    /\ lua.print
    /\ is_module_preloaded(lua, LOVELY)
    /\ \A i \in DOMAIN patch_table.patches :
          (Kind(i) = "module" /\ ~patch_table.patches[i].patch.load_now)
             => patch_table.patches[i].patch.name \in lua.preload

\* C2: once a load is past its entry, and so before any load_now module,
\* copy, pattern or regex patch is applied, the interpreter has the print
\* override, the preloaded `lovely` module and every module patch that is not
\* load_now registered in package.preload.
C2_InitBeforePatches == pc # "start" => InitComplete

(***************************************************************************)
(* Properties of the detour of the Windows shim (SpecWin).                 *)
(***************************************************************************)
\* C3: every interpreter state that has had a detoured load has had the
\* per-state init exactly once, whatever number of loads followed and
\* whatever happened on other states.
C3_InitOncePerState ==
    \A s \in States :
       /\ win_luas[s].inits <= 1
       /\ win_calls[s] >= 1 => (win_luas[s].inits = 1 /\ win_luas[s].print)

(***************************************************************************)
(* Properties of the shared runtime (SpecShim).                            *)
(***************************************************************************)
\* C4: whatever a load has read of the table so far, targets, patches and
\* vars, is all part of one table that was published, while reloads run on
\* other threads.
C4_OneTablePerLoad ==
    \A t \in Threads :
       InLoad(t) =>
          \E T \in history :
             \A k \in DOMAIN seen[t] : T[seen[t][k].field] = seen[t][k].value

\* A load that has read the targets and the patches of the published table
\* while another thread holds a different, rebuilt table it still has to
\* publish.
C4_Witness ==
    \E t, u \in Threads :
       /\ tpc[t] = "interp"
       /\ Len(seen[t]) >= 2
       /\ tpc[u] = "reloaded"
       /\ new_table[u].result # None
       /\ unwrap(new_table[u].result) # table_pub

\* C5: a reload_patches call whose catalog cannot be rebuilt leaves the
\* published table as it was and returns false with an error string; one
\* whose catalog is rebuilt publishes exactly the rebuilt table and returns
\* true; and nothing else changes the published table.
C5_Transactional ==
    [][/\ \A t \in Threads :
             (tpc[t] = "reloaded" /\ tpc'[t] = "idle") =>
                IF new_table[t].from.ok
                THEN /\ table_pub' = PatchTable_load(new_table[t].from.raw)
                     /\ ret'[t] = <<TRUE>>
                ELSE /\ table_pub' = table_pub
                     /\ ret'[t] = <<FALSE, PanicMessage>>
       /\ table_pub' # table_pub =>
             \E t \in Threads : tpc[t] = "reloaded" /\ tpc'[t] = "idle"
                                   /\ new_table[t].from.ok]_vars

\* One thread's reload has failed and returned false with the message, the
\* other's has succeeded, and the published table is the rebuilt one.
C5_Witness ==
    \E t, u \in Threads :
       /\ ret[t] = <<FALSE, PanicMessage>>
       /\ ret[u] = <<TRUE>>
       /\ table_pub = PatchTable_load(DiskY.raw)
       /\ table_pub # PatchTable_load(DiskX.raw)

(***************************************************************************)
(* Single functions of the runtime, called once on arguments drawn from    *)
(* bounded sets.                                                           *)
(***************************************************************************)
\* Largest byte offset and largest size of a delta of a region.
MaxPos == 4

\* Everything but the call at hand.
RestIdle ==
    /\ EngineStart(PatchTable_default)
    /\ dump_all = FALSE
    /\ buf = <<>>
    /\ ShimStart(PatchTable_default)
    /\ WinStart

\* A call returns: the result is stored.
Returns(result) ==
    /\ fn_out = None
    /\ fn_out' = Some(result)
    /\ UNCHANGED <<fn_in, engine_vars, shim_vars, win_vars>>

\* ByteRegion::adjust on every region, edit position and delta of the bounds.
InitAdjust ==
    /\ \E start \in 0..MaxPos, delta0 \in {-1, 1} :
         \E end \in start..MaxPos :
           \E edit_pos \in 0..MaxPos, delta \in (0 - MaxPos)..MaxPos :
              fn_in = [region |-> ByteRegion(start, end, delta0),
                       edit_pos |-> edit_pos, delta |-> delta]
    /\ fn_out = None
    /\ RestIdle

AdjustCall == Returns(ByteRegion_adjust(fn_in.region, fn_in.edit_pos, fn_in.delta))

SpecAdjust == InitAdjust /\ [][AdjustCall]_vars

\* C11, as the claim states it: a region wholly before the edit is unchanged,
\* a region straddling it has its end moved by delta, a region at or after
\* it has start and end moved by delta.
C11_AdjustByDelta ==
    fn_out # None =>
       LET r == fn_in.region
           e == fn_in.edit_pos
           d == fn_in.delta
           o == unwrap(fn_out)
       IN /\ (r.start < e /\ r.end <= e) => o = r
          /\ (r.start < e /\ e < r.end) =>
                o = [r EXCEPT !.end = r.end + d]
          /\ e <= r.start =>
                o = [r EXCEPT !.start = r.start + d, !.end = r.end + d]

\* C11, amended: the same three cases, with every moved offset stopping at 0
\* when delta would take it below.
C11_AdjustClamped ==
    fn_out # None =>
       LET r == fn_in.region
           e == fn_in.edit_pos
           d == fn_in.delta
           o == unwrap(fn_out)
           Moved(x) == IF x + d < 0 THEN 0 ELSE x + d
       IN /\ (r.start < e /\ r.end <= e) => o = r
          /\ (r.start < e /\ e < r.end) =>
                o = [r EXCEPT !.end = Moved(r.end)]
          /\ e <= r.start =>
                o = [r EXCEPT !.start = Moved(r.start), !.end = Moved(r.end)]

\* A region at the edit position moved by a delta that takes its start below
\* 0 and its end not: the start stops at 0.
C11_Witness ==
    /\ fn_out # None
    /\ fn_in.edit_pos = fn_in.region.start
    /\ fn_in.region.start + fn_in.delta < 0
    /\ fn_in.region.end + fn_in.delta > 0
    /\ unwrap(fn_out).start = 0
    /\ unwrap(fn_out).end = fn_in.region.end + fn_in.delta

(***************************************************************************)
(* Properties of the target index and of glob targets (Spec).              *)
(***************************************************************************)
\* Whether a target string is a glob.
IsGlob(s) == \E i \in DOMAIN s : s[i] \in {"?", "*"}

\* The target strings of a patch.
TargetStrings(p) ==
    CASE p.kind = "module" -> {p.before}
      [] p.kind = "regex" -> {p.target}
      [] OTHER -> {p.target[i] : i \in DOMAIN p.target}

\* C12: the exact-target set of a loaded table holds no string with `?` or
\* `*`; every such target of the catalog is in the glob list; and the exact
\* lookup finds a chunk name only under its very spelling.
C12_GlobsKeptApart ==
    /\ \A s \in patch_table.targets : ~IsGlob(s)
    /\ \A i \in DOMAIN patch_table.patches :
          \A s \in TargetStrings(patch_table.patches[i].patch) :
             IsGlob(s) => \E g \in DOMAIN patch_table.glob_targets :
                             patch_table.glob_targets[g] = s

\* C13: a load whose catalog is one copy, pattern or regex patch with a glob
\* target that matches the chunk name ends with the rope the same patch
\* leaves when it names the chunk exactly.
C13_GlobTargetApplies ==
    (/\ pc = "done"
     /\ Len(patch_table.patches) = 1
     /\ Kind(1) # "module"
     /\ \E s \in TargetStrings(patch_table.patches[1].patch) :
           IsGlob(s) /\ WildMatches(s, Target))
    => LET p == patch_table.patches[1].patch
           exact == CASE p.kind = "copy" ->
                            CopyPatch_apply([p EXCEPT !.target = <<Target>>], Target, buf).rope
                      [] p.kind = "pattern" ->
                            PatternPatch_apply([p EXCEPT !.target = <<Target>>], Target, buf).rope
                      [] OTHER ->
                            RegexPatch_apply([p EXCEPT !.target = Target], Target, buf).rope
       IN handed = Some(Interpolated(patch_table, exact))

(***************************************************************************)
(* CopyPatch::apply on its own (SpecCopy).                                 *)
(***************************************************************************)
\* Largest number of sources of a copy patch.
MaxSources == 2

CopyBuffers == { <<"X">>, <<"X", NL>>, <<>>, <<"a", NL, "b">> }

\* A copy patch that passed the loader (sources or payload set) and a buffer
\* of the chunk it targets.
InitCopy ==
    /\ \E position \in {"Prepend", "Append"},
          sources \in SeqUpTo({<<"c">>, <<"d", "d">>}, MaxSources),
          payload \in {None, Some(<<"-", "-", " ", "e", "n", "d">>)},
          b \in CopyBuffers :
         /\ sources # <<>> \/ payload # None
         /\ fn_in = [patch |-> CopyOf(position, sources, payload), rope |-> b]
    /\ fn_out = None
    /\ RestIdle

CopyCall == Returns(CopyPatch_apply(fn_in.patch, M, fn_in.rope))

SpecCopy == InitCopy /\ [][CopyCall]_vars

\* C14: the buffer a copy patch leaves is the block of its sources' contents
\* in order and then its payload, each followed by one "\n", put before the
\* buffer (Prepend) or after it (Append).
C14_CopyBlock ==
    fn_out # None =>
       LET items == CopyItems(fn_in.patch)
           RECURSIVE Block(_)
           Block(k) == IF k > Len(items) THEN <<>>
                       ELSE items[k] \o <<NL>> \o Block(k + 1)
       IN unwrap(fn_out).rope =
             IF fn_in.patch.position = "Prepend"
             THEN Block(1) \o fn_in.rope
             ELSE fn_in.rope \o Block(1)

(***************************************************************************)
(* RegexPatch::apply on its own, one pass of its edit loop per step        *)
(* (SpecRegex).  fn_out holds the loop's state: the captures still to      *)
(* edit, the rope, delta and regions, and, for the latest pass, the rope   *)
(* it started from and the target span it edited.                          *)
(***************************************************************************)
RegexBuffers ==
    { <<"x", "a", "y">>, <<"a">>, <<"-", "a", "-">>, <<"a", "a">>,
      <<"_", "a", " ", "a", "1">> }

RegexPayloads ==
    { <<"z">>, <<"-">>, <<"z", "-">>, <<"-", "z">>, <<" ", "z", " ">>, <<>> }

InitRegex ==
    /\ \E position \in {"Before", "After", "At"},
          payload \in RegexPayloads,
          times \in {None, Some(1)},
          b \in RegexBuffers :
         fn_in = [patch |-> RegexOf(<<"a">>, position, payload, times), rope |-> b]
    /\ fn_out = None
    /\ RestIdle

\* The collection of the captures and their truncation to `times`.
RegexBegin ==
    /\ fn_out = None
    /\ fn_in.patch.target = M
    /\ LET all == captures_iter(fn_in.patch.pattern, fn_in.rope, 0)
       IN /\ all # <<>>
          /\ fn_out' = Some([todo |-> ApplyTimes(all, fn_in.patch.times),
                             st |-> [rope |-> fn_in.rope, delta |-> 0,
                                     regions |-> <<>>, panicked |-> FALSE],
                             prev |-> None, span |-> None])
    /\ UNCHANGED <<fn_in, engine_vars, shim_vars, win_vars>>

\* One pass of `for groups in captures`.
RegexEdit ==
    /\ fn_out # None
    /\ unwrap(fn_out).todo # <<>>
    /\ ~unwrap(fn_out).st.panicked
    /\ LET cur == unwrap(fn_out)
           groups == Head(cur.todo)
           target_group == RootGroup(fn_in.patch, groups)
       IN fn_out' = Some([todo |-> Tail(cur.todo),
                          st |-> RegexEdits(fn_in.patch, <<groups>>, cur.st),
                          prev |-> Some(cur.st.rope),
                          span |-> IF target_group = None THEN None
                                   ELSE Some([start |-> unwrap(target_group).start + cur.st.delta,
                                              end |-> unwrap(target_group).end + cur.st.delta])])
    /\ UNCHANGED <<fn_in, engine_vars, shim_vars, win_vars>>

NextRegex == RegexBegin \/ RegexEdit

SpecRegex == InitRegex /\ [][NextRegex]_vars

\* The text before and after the place a pass edited, in the rope the pass
\* started from, and the text the pass put between them.
EditLeft ==
    LET cur == unwrap(fn_out)
        at == IF fn_in.patch.position = "After"
              THEN unwrap(cur.span).end ELSE unwrap(cur.span).start
    IN SubSeq(unwrap(cur.prev), 1, at)

EditRight ==
    LET cur == unwrap(fn_out)
        at == IF fn_in.patch.position = "Before"
              THEN unwrap(cur.span).start ELSE unwrap(cur.span).end
    IN SubSeq(unwrap(cur.prev), at + 1, Len(unwrap(cur.prev)))

Edited == fn_out # None /\ unwrap(fn_out).prev # None /\ unwrap(fn_out).span # None

SpaceLeft ==
    /\ fn_in.patch.payload # <<>> /\ IsWord(Head(fn_in.patch.payload))
    /\ EditLeft # <<>> /\ IsWord(EditLeft[Len(EditLeft)])

SpaceRight ==
    /\ fn_in.patch.payload # <<>>
    /\ IsWord(fn_in.patch.payload[Len(fn_in.patch.payload)])
    /\ EditRight # <<>> /\ IsWord(Head(EditRight))

\* C15: every edit of a regex patch leaves, between the text before and the
\* text after the place it edits, the payload with one space in front exactly
\* when the byte before the place and the payload's first character are both
\* word characters, and one space behind exactly when the byte after the
\* place and the payload's last character both are.
C15_BoundaryGuard ==
    Edited =>
       unwrap(fn_out).st.rope =
          EditLeft
          \o (IF SpaceLeft THEN <<" ">> ELSE <<>>)
          \o fn_in.patch.payload
          \o (IF SpaceRight THEN <<" ">> ELSE <<>>)
          \o EditRight

\* An After edit that got a space in front and none behind, second of two.
C15_Witness ==
    /\ Edited
    /\ fn_in.patch.position = "After"
    /\ Len(unwrap(fn_out).st.regions) = 2
    /\ SpaceLeft /\ ~SpaceRight

(***************************************************************************)
(* PatternPatch::apply on its own (SpecPattern).  The buffer is built from *)
(* lines [indent, word] and the pattern is the line "a", so the lines      *)
(* whose word is "a" are the matches.                                      *)
(***************************************************************************)
\* Largest number of lines of the buffer.
MaxLines == 2

Indents == { <<>>, <<"\t">>, <<" ", "\t">>, <<" ", " ">> }

LineOf(l) == l.indent \o l.word \o <<NL>>

PatternPayloads ==
    { <<"x">>, <<"x", NL>>, <<"x", NL, "y">>, <<"x", NL, NL, "y", NL>>, <<>> }

InitPattern ==
    /\ \E position \in {"Before", "After", "At"},
          payload \in PatternPayloads,
          match_indent \in BOOLEAN,
          ls \in SeqUpTo([indent : Indents, word : {<<"a">>, <<"b">>}], MaxLines) :
         /\ ls # <<>>
         /\ fn_in = [patch |-> [PatternOf(M, <<"a">>, position, payload, None)
                                   EXCEPT !.match_indent = match_indent],
                     rope |-> concat([k \in DOMAIN ls |-> LineOf(ls[k])]),
                     ls |-> ls]
    /\ fn_out = None
    /\ RestIdle

PatternCall == Returns(PatternPatch_apply(fn_in.patch, M, fn_in.rope))

SpecPattern == InitPattern /\ [][PatternCall]_vars

\* The payload read character by character, the indent put at the start of
\* each of its lines.
RECURSIVE IndentedFrom(_, _, _, _)
IndentedFrom(payload, indent, i, at_line_start) ==
    IF i > Len(payload) THEN <<>>
    ELSE (IF at_line_start THEN indent ELSE <<>>)
         \o <<payload[i]>>
         \o IndentedFrom(payload, indent, i + 1, payload[i] = NL)

\* The text the claim has a pattern patch insert for a match on line l.
InsertedFor(l) ==
    LET payload == fn_in.patch.payload
        indent == IF fn_in.patch.match_indent THEN l.indent ELSE <<>>
    IN IndentedFrom(payload, indent, 1, TRUE)
       \o (IF payload # <<>> /\ payload[Len(payload)] = NL THEN <<>> ELSE <<NL>>)

\* The buffer with that text put before, after or in place of each match.
RECURSIVE ExpectedFrom(_)
ExpectedFrom(k) ==
    IF k > Len(fn_in.ls) THEN <<>>
    ELSE LET l == fn_in.ls[k]
         IN (IF l.word # <<"a">> THEN LineOf(l)
             ELSE CASE fn_in.patch.position = "Before" -> InsertedFor(l) \o LineOf(l)
                    [] fn_in.patch.position = "After" -> LineOf(l) \o InsertedFor(l)
                    [] fn_in.patch.position = "At" -> InsertedFor(l))
            \o ExpectedFrom(k + 1)

\* C16: the text a pattern patch inserts for a match is its payload with the
\* leading spaces and tabs of the matched line before every payload line when
\* match_indent is set and nothing before them otherwise, followed by one
\* "\n" when the payload does not end with one and by nothing when it does.
C16_InsertedText ==
    fn_out # None => unwrap(fn_out).rope = ExpectedFrom(1)

\* Two matches with different indents, one of them with a tab, a payload of
\* two lines without a final newline, match_indent set.
C16_Witness ==
    /\ fn_out # None
    /\ fn_in.patch.match_indent
    /\ fn_in.patch.payload = <<"x", NL, "y">>
    /\ Len(fn_in.ls) = 2
    /\ \A k \in 1..2 : fn_in.ls[k].word = <<"a">>
    /\ fn_in.ls[1].indent = <<" ", "\t">>
    /\ fn_in.ls[2].indent = <<>>
    /\ unwrap(fn_out).rope # fn_in.rope

(***************************************************************************)
(* The variable interpolation of apply_patches on its own (SpecInterp).    *)
(* "{" stands for `{{lovely:` and "}" for `}}`.                            *)
(***************************************************************************)
\* Largest number of pieces the final text is put together from.
MaxPieces == 3

TextPieces ==
    { <<"{", "v", "}">>, <<"{", "u", "}">>, <<"{", "w", "}">>,
      <<"{">>, <<"}">>, <<"v">>, <<NL>> }

\* The variable tables: none, a plain value, a value that is itself a token
\* of a registered name, and one that is a token of an unregistered name.
VarTables ==
    { NoVars,
      [k \in {<<"v">>} |-> <<"z">>],
      [k \in {<<"v">>, <<"u">>} |-> IF k = <<"v">> THEN <<"{", "u", "}">> ELSE <<"y">>],
      [k \in {<<"v">>} |-> <<"{", "w", "}">>] }

InitInterp ==
    /\ \E ps \in SeqUpTo(TextPieces, MaxPieces), variables \in VarTables :
         fn_in = [rope |-> concat(ps),
                  table |-> [PatchTable_default EXCEPT !.vars = variables]]
    /\ fn_out = None
    /\ RestIdle

InterpCall == Returns(Interpolated(fn_in.table, fn_in.rope))

SpecInterp == InitInterp /\ [][InterpCall]_vars

\* Whether a token of n name characters starts at index i of the final text.
TokenOfLen(text, i, n) ==
    /\ text[i] = "{"
    /\ i + n + 1 <= Len(text)
    /\ \A k \in (i + 1)..(i + n) : IsWord(text[k])
    /\ text[i + n + 1] = "}"

TokenStarts(text) ==
    {i \in DOMAIN text : \E n \in 1..Len(text) : TokenOfLen(text, i, n)}

NameAt(text, i) ==
    LET n == CHOOSE n \in 1..Len(text) : TokenOfLen(text, i, n)
    IN SubSeq(text, i + 1, i + n)

\* Whether index k lies in a token that starts before it.
InToken(text, k) ==
    \E i \in TokenStarts(text) : i < k /\ k <= i + Len(NameAt(text, i)) + 1

\* The final text, each token replaced by the value of its name and every
\* other character kept.
Substituted(text, variables) ==
    concat([k \in DOMAIN text |->
               IF k \in TokenStarts(text) THEN variables[NameAt(text, k)]
               ELSE IF InToken(text, k) THEN <<>>
               ELSE <<text[k]>>])

\* C17: interpolation gives the final text with every token replaced by the
\* value of its name, the values left as they are, and panics exactly when a
\* token of the final text names a variable the table lacks.
C17_SinglePass ==
    fn_out # None =>
       LET text == fn_in.rope
           variables == fn_in.table.vars
       IN IF \E i \in TokenStarts(text) : NameAt(text, i) \notin DOMAIN variables
          THEN unwrap(fn_out) = Panic
          ELSE unwrap(fn_out) = Substituted(text, variables)

\* Two tokens of v, whose value is a token of the registered name u, give
\* that token twice, unreplaced.
C17_Witness ==
    /\ fn_out # None
    /\ fn_in.rope = <<"{", "v", "}", NL, "{", "v", "}">>
    /\ <<"u">> \in DOMAIN fn_in.table.vars
    /\ unwrap(fn_out) = <<"{", "u", "}", NL, "{", "u", "}">>

(***************************************************************************)
(* Loading a catalog from patch files (SpecLoad).  A patch file is a       *)
(* record [readable, parses, patches, sources, prio, vars]: whether its    *)
(* text can be read and deserialized, the patches it holds, and the names  *)
(* of the source files that exist next to it.  In a file a module patch    *)
(* has `before` as an Option and `source` as a name, a copy patch has      *)
(* `sources` as an Option of names.  A Result is an Option: Err is None.   *)
(***************************************************************************)
\* Largest number of patch files of a mod directory.
MaxFiles == 2

FileOf(readable, parses, patches, sources) ==
    [readable |-> readable, parses |-> parses, patches |-> patches,
     sources |-> sources, prio |-> 0, vars |-> NoVars]

ModuleIn(nm, before, load_now, source) ==
    [kind |-> "module", name |-> nm, before |-> before, load_now |-> load_now,
     source |-> source]

CopyIn(sources, payload) ==
    [kind |-> "copy", target |-> <<M>>, position |-> "Append",
     sources |-> sources, payload |-> payload]

S1 == <<"s", "1">>
S2 == <<"s", "2">>

PatchFiles ==
    { FileOf(FALSE, TRUE, <<>>, {}),
      FileOf(TRUE, FALSE, <<>>, {}),
      FileOf(TRUE, TRUE, <<PatternOf(M, <<"a">>, "After", <<"x">>, None)>>, {}),
      FileOf(TRUE, TRUE, <<ModuleIn(<<"n", "1">>, Some(M), TRUE, S1)>>, {S1}),
      FileOf(TRUE, TRUE, <<ModuleIn(<<"n", "1">>, None, TRUE, S1)>>, {S1}),
      FileOf(TRUE, TRUE, <<ModuleIn(<<"n", "2">>, None, FALSE, S1)>>, {S1}),
      FileOf(TRUE, TRUE, <<ModuleIn(<<"n", "1">>, Some(M), FALSE, S1)>>, {}),
      FileOf(TRUE, TRUE, <<CopyIn(Some(<<S1, S2>>), None)>>, {S1, S2}),
      FileOf(TRUE, TRUE, <<CopyIn(Some(<<S1, S2>>), None)>>, {S1}),
      FileOf(TRUE, TRUE, <<CopyIn(None, Some(<<"a">>))>>, {}),
      FileOf(TRUE, TRUE, <<CopyIn(None, None)>>, {}) }

\* The patch as the table holds it: a module's missing `before` is the
\* empty name, a copy patch carries the texts of its sources.
Loaded(patch) ==
    CASE patch.kind = "module" ->
           ModuleOf(patch.name,
                    IF patch.before = None THEN <<>> ELSE unwrap(patch.before),
                    patch.load_now, "ok")
      [] patch.kind = "copy" ->
           CopyOf(patch.position,
                  IF patch.sources = None THEN <<>> ELSE unwrap(patch.sources),
                  patch.payload)
      [] OTHER -> patch

RawOf(f) == [k \in DOMAIN f.patches |-> Entry(Loaded(f.patches[k]), f.prio, f.vars)]

\* The checks loader::load_patches_new makes on one patch of a file.
PatchLoads(patch, f) ==
    CASE patch.kind = "module" ->
           /\ ~(patch.load_now /\ patch.before = None)
           /\ patch.source \in f.sources
      [] patch.kind = "copy" ->
           \/ patch.sources = None
           \/ \A k \in DOMAIN unwrap(patch.sources) : unwrap(patch.sources)[k] \in f.sources
      [] OTHER -> TRUE

\* loader::load_patches_new over the files from index i: the raw patches,
\* or Err at the first file that fails.
RECURSIVE load_patches_new(_, _)
load_patches_new(files, i) ==
    IF i > Len(files) THEN Some(<<>>)
    ELSE LET f == files[i]
             rest == load_patches_new(files, i + 1)
         IN IF ~f.readable \/ ~f.parses THEN None
            ELSE IF \E k \in DOMAIN f.patches : ~PatchLoads(f.patches[k], f) THEN None
            ELSE IF rest = None THEN None
            ELSE Some(RawOf(f) \o unwrap(rest))

\* PatchTable::load of patch/table.rs
PatchTable_load_files(files) ==
    LET raw_patches == load_patches_new(files, 1)
    IN IF raw_patches = None THEN None
       ELSE Some(PatchTable_load(unwrap(raw_patches)))

\* The checks PatchTable::load of patch_table.rs makes on one patch: the
\* source files are not opened before a patch is applied.
PatchLoads_patch_table(patch) ==
    CASE patch.kind = "module" -> ~(patch.load_now /\ patch.before = None)
      [] patch.kind = "copy" -> ~(patch.sources = None /\ patch.payload = None)
      [] OTHER -> TRUE

\* PatchTable::load of patch_table.rs
RECURSIVE patch_table_load_from(_, _)
patch_table_load_from(files, i) ==
    IF i > Len(files) THEN Some(<<>>)
    ELSE LET f == files[i]
             rest == patch_table_load_from(files, i + 1)
         IN IF ~f.readable \/ ~f.parses THEN None
            ELSE IF \E k \in DOMAIN f.patches : ~PatchLoads_patch_table(f.patches[k])
            THEN None
            ELSE IF rest = None THEN None
            ELSE Some(RawOf(f) \o unwrap(rest))

\* var_table.extend(patch_file.vars), once per patch file
\* (patch_table.rs:196).
RECURSIVE var_table_of(_, _)
var_table_of(files, i) ==
    IF i = 0 THEN NoVars ELSE extend(var_table_of(files, i - 1), files[i].vars)

patch_table_load(files) ==
    LET raw_patches == patch_table_load_from(files, 1)
    IN IF raw_patches = None THEN None
       ELSE Some([PatchTable_load(unwrap(raw_patches))
                    EXCEPT !.vars = var_table_of(files, Len(files))])

InitLoad ==
    /\ \E files \in SeqUpTo(PatchFiles, MaxFiles) :
         /\ files # <<>>
         /\ fn_in = files
    /\ fn_out = None
    /\ RestIdle

LoadCall == Returns([by |-> "patch/table.rs", table |-> PatchTable_load_files(fn_in)])

LoadCall_patch_table == Returns([by |-> "patch_table.rs", table |-> patch_table_load(fn_in)])

NextLoad == LoadCall \/ LoadCall_patch_table

SpecLoad == InitLoad /\ [][NextLoad]_vars

\* The faults the load is to abort on.
SourcesOf(patch) ==
    CASE patch.kind = "module" -> {patch.source}
      [] patch.kind = "copy" ->
           IF patch.sources = None THEN {}
           ELSE {unwrap(patch.sources)[k] : k \in DOMAIN unwrap(patch.sources)}
      [] OTHER -> {}

FaultyFile(f) ==
    \/ ~f.readable
    \/ ~f.parses
    \/ \E k \in DOMAIN f.patches :
          LET patch == f.patches[k]
          IN \/ patch.kind = "module" /\ patch.load_now /\ patch.before = None
             \/ patch.kind = "copy" /\ patch.sources = None /\ patch.payload = None
             \/ \E src \in SourcesOf(patch) : src \notin f.sources

\* C18: a load over patch files of which one is unreadable or unparsable,
\* holds a module patch with load_now and no `before`, holds a copy patch
\* with neither sources nor payload, or refers to a missing source file,
\* returns an error and no table.
C18_LoadAborts ==
    (fn_out # None /\ \E i \in DOMAIN fn_in : FaultyFile(fn_in[i]))
    => unwrap(fn_out).table = None

(***************************************************************************)
(* Module patches the interpreter rejects (Spec).                          *)
(***************************************************************************)
\* The load_now module patches aimed at the chunk whose source the
\* interpreter fails to load or to evaluate.
FailingModules ==
    {i \in DOMAIN patch_table.patches :
        /\ Kind(i) = "module"
        /\ Accepts(patch_table.patches[i].patch)
        /\ patch_table.patches[i].patch.src \in {"load_fail", "eval_fail"}}

\* The rope after the copy, pattern and regex patches idxs, in that order.
RECURSIVE RopeAfter(_, _)
RopeAfter(idxs, rp) ==
    IF idxs = <<>> THEN rp
    ELSE LET p == patch_table.patches[Head(idxs)].patch
             r == CASE p.kind = "copy" -> CopyPatch_apply(p, Target, rp).rope
                    [] p.kind = "pattern" -> PatternPatch_apply(p, Target, rp).rope
                    [] OTHER -> RegexPatch_apply(p, Target, rp).rope
         IN RopeAfter(Tail(idxs), r)

\* C19: a load_now module patch whose source fails to load or to evaluate is
\* not counted and registers nothing, and the load still ends with every
\* other module patch for the chunk registered and with the buffer that the
\* copy, pattern and regex patches of the catalog produce handed over.
C19_FailedModuleSkipped ==
    (pc = "done" /\ FailingModules # {}) =>
       /\ \A i \in FailingModules :
             /\ \A k \in DOMAIN applied : applied[k] # i
             /\ patch_table.patches[i].patch.name \notin lua.preload
       /\ \A j \in DOMAIN patch_table.patches :
             (Kind(j) = "module" /\ Accepts(patch_table.patches[j].patch)
              /\ j \notin FailingModules)
             => /\ \E k \in DOMAIN applied : applied[k] = j
                /\ patch_table.patches[j].patch.name \in lua.preload
       /\ handed = Some(Interpolated(patch_table,
                        RopeAfter(copy_patches(patch_table)
                                  \o pattern_and_regex(patch_table), buf)))

\* A load that met a failing module first and then rewrote the buffer with
\* the patch that follows it.
C19_Witness ==
    /\ pc = "done"
    /\ 1 \in FailingModules
    /\ Len(patch_table.patches) = 2
    /\ applied = <<2>>
    /\ Kind(2) \in {"copy", "pattern", "regex"}
    /\ handed # Some(buf)

(***************************************************************************)
(* The interpreter stack (SpecStack).  A stack is the sequence of the      *)
(* values on it, bottom first; package.preload is the set of the names     *)
(* registered in it.                                                       *)
(***************************************************************************)
\* Largest number of values on the stack on entry.
MaxStack == 2
\* Largest number of entries of a LuaTable.
MaxTableVars == 2

lua_gettop(st) == Len(st)

\* A settop that leaves the stack as it is.
lua_settop_Keep(st, index) == st

lua_settop(st, index) ==
    IF index <= Len(st) THEN SubSeq(st, 1, index)
    ELSE st \o [k \in 1..(index - Len(st)) |-> "nil"]

lua_getfield(st, k) == Append(st, k)

lua_pushstring(st) == Append(st, "string")

lua_createtable(st) == Append(st, "table")

\* Pops the n upvalues, pushes the closure.
lua_pushcclosure(st, n) == Append(SubSeq(st, 1, Len(st) - n), "closure")

\* Pops the value, stores it in the table at index.
lua_setfield(st, index) == SubSeq(st, 1, Len(st) - 1)

\* Pops the key and the value.
lua_settable(st) == SubSeq(st, 1, Len(st) - 2)

\* Pushes the compiled chunk, or the error message.
lual_loadbufferx(st, ok) == Append(st, IF ok THEN "function" ELSE "error")

\* Pops the function and its arguments, pushes the results or the error
\* message.
lua_pcall(st, nargs, nresults, ok) ==
    LET base == SubSeq(st, 1, Len(st) - nargs - 1)
    IN IF ok THEN base \o [k \in 1..nresults |-> "result"]
       ELSE Append(base, "error")

\* Pushable for LuaTable, the loop over the n entries still to add.
RECURSIVE LuaTable_vars(_, _)
LuaTable_vars(st, n) ==
    IF n = 0 THEN st
    ELSE LuaTable_vars(lua_settable(lua_pushstring(lua_pushstring(st))), n - 1)

LuaTable_push(st, n) == LuaTable_vars(lua_createtable(st), n)

\* ModulePatch::apply, call by call on the stack: [ok, stack, preload].
ModulePatch_apply_stack(p, file_name, st, preload) ==
    IF p.before # file_name THEN [ok |-> FALSE, stack |-> st, preload |-> preload]
    ELSE LET stack_top == lua_gettop(st)
             s2 == lua_getfield(lua_getfield(st, "package"), "preload")
             field_index == lua_gettop(s2)
             s3 == lual_loadbufferx(s2, p.src # "load_fail")
         IN IF p.src = "load_fail"
            THEN [ok |-> FALSE, stack |-> lua_settop(s3, stack_top), preload |-> preload]
            ELSE LET s4 == IF p.load_now
                           THEN lua_pcall(s3, 0, 1, p.src # "eval_fail") ELSE s3
                 IN IF p.load_now /\ p.src = "eval_fail"
                    THEN [ok |-> FALSE, stack |-> lua_settop(s4, stack_top),
                          preload |-> preload]
                    ELSE LET s5 == IF p.load_now THEN lua_pushcclosure(s4, 1) ELSE s4
                             s6 == lua_setfield(s5, field_index)
                         IN [ok |-> TRUE,
                             stack |-> lua_settop(s6, stack_top),
                             preload |-> preload \cup {p.name}]

\* sys::preload_module with a LuaTable of n entries, call by call.
preload_module_stack(nm, n, st, preload) ==
    LET top == lua_gettop(st)
        s2 == lua_getfield(lua_getfield(st, "package"), "preload")
        preload_index == lua_gettop(s2)
        s3 == LuaTable_push(s2, n)
        s4 == lua_pushcclosure(s3, 1)
        s5 == lua_setfield(s4, preload_index)
    IN [ok |-> TRUE, stack |-> lua_settop(s5, top), preload |-> preload \cup {nm}]

\* sys::is_module_preloaded, call by call.
is_module_preloaded_stack(nm, st, preload) ==
    LET stack_top == lua_gettop(st)
        s2 == lua_getfield(lua_getfield(st, "package"), "preload")
        s3 == lua_getfield(s2, IF nm \in preload THEN "function" ELSE "nil")
        res == s3[Len(s3)] # "nil"
    IN [ok |-> res, stack |-> lua_settop(s3, stack_top), preload |-> preload]

StackCalls ==
    {[fn |-> "apply", patch |-> ModuleOf(<<"n", "1">>, before, load_now, src), n |-> 0] :
        before \in {M, O}, load_now \in BOOLEAN, src \in {"ok", "load_fail", "eval_fail"}}
    \cup {[fn |-> "preload_module", patch |-> ModuleOf(LOVELY, <<>>, FALSE, "ok"), n |-> n] :
             n \in 0..MaxTableVars}
    \cup {[fn |-> "is_module_preloaded", patch |-> ModuleOf(LOVELY, <<>>, FALSE, "ok"), n |-> 0]}

InitStack ==
    /\ \E call \in StackCalls,
          st \in SeqUpTo({"x", "function"}, MaxStack),
          preload \in {{}, {LOVELY}} :
         fn_in = [call |-> call, stack |-> st, preload |-> preload]
    /\ fn_out = None
    /\ RestIdle

ApplyCall ==
    /\ fn_in.call.fn = "apply"
    /\ Returns(ModulePatch_apply_stack(fn_in.call.patch, M, fn_in.stack, fn_in.preload))

PreloadCall ==
    /\ fn_in.call.fn = "preload_module"
    /\ Returns(preload_module_stack(fn_in.call.patch.name, fn_in.call.n,
                                    fn_in.stack, fn_in.preload))

IsPreloadedCall ==
    /\ fn_in.call.fn = "is_module_preloaded"
    /\ Returns(is_module_preloaded_stack(fn_in.call.patch.name,
                                         fn_in.stack, fn_in.preload))

NextStack == ApplyCall \/ PreloadCall \/ IsPreloadedCall

SpecStack == InitStack /\ [][NextStack]_vars

\* C20: whichever way ModulePatch::apply, preload_module and
\* is_module_preloaded return, the stack top is the one they were entered
\* with, and the values below it are untouched.
C20_StackTopRestored ==
    fn_out # None =>
       /\ lua_gettop(unwrap(fn_out).stack) = lua_gettop(fn_in.stack)
       /\ unwrap(fn_out).stack = fn_in.stack

\* ModulePatch::apply returned false after a failed evaluation, entered with
\* values on the stack.
C20_Witness ==
    /\ fn_out # None
    /\ fn_in.call.fn = "apply"
    /\ fn_in.call.patch.before = M
    /\ fn_in.call.patch.load_now
    /\ fn_in.call.patch.src = "eval_fail"
    /\ ~unwrap(fn_out).ok
    /\ lua_gettop(fn_in.stack) = MaxStack

(***************************************************************************)
(* create_patch (SpecCreate).  The TOML text the function generates is a   *)
(* sequence of tokens: the line break, the quote, headers, `key=` tokens   *)
(* and atoms.  A Lua string is a sequence of tokens too, so a value can    *)
(* hold line breaks, quotes and headers.                                   *)
(***************************************************************************)
Q == "'''"

Headers ==
    {"[manifest]", "[[patches]]", "[[junk]]", "[patches.pattern]",
     "[patches.regex]", "[patches.copy]", "[patches.module]"}

KeyToken(k) == k \o "="

KeyTokens ==
    {KeyToken(k) : k \in {"type", "priority", "pattern", "position", "target",
                          "payload", "match_indent", "sources", "version",
                          "dump_lua", "source", "before", "name"}}

\* Whether a field is written without quotes.
is_naked(k) == k \in {"priority", "match_indent", "sources"}

\* The match on the type field: the required fields, or the message the
\* call returns with.
required_fields(type) ==
    CASE type \in {<<"pattern">>, <<"regex">>} ->
           [ok |-> TRUE, message |-> "",
            fields |-> {"pattern", "position", "target", "payload", "match_indent"}]
      [] type = <<"module">> ->
           [ok |-> FALSE, message |-> "Modules aren't supported here", fields |-> {}]
      [] type = <<"copy">> ->
           [ok |-> TRUE, message |-> "", fields |-> {"position", "target"}]
      [] OTHER ->
           [ok |-> FALSE, message |-> "Invalid argument 'type' provided", fields |-> {}]

\* The generated TOML: the manifest with the priority, one [[patches]]
\* element of the given type, and the fields in the order the HashMap
\* yields them.
toml_of(fields, order) ==
    LET priority == IF "priority" \in DOMAIN fields THEN fields["priority"] ELSE <<"0">>
        field(k) == <<NL, KeyToken(k)>>
                    \o (IF is_naked(k) THEN fields[k] ELSE <<Q>> \o fields[k] \o <<Q>>)
    IN <<"[manifest]", NL, "version=", Q, "1.0.0", Q, NL, "dump_lua=", "true", NL,
         "priority=">>
       \o priority
       \o <<NL, "[[patches]]", NL, "[patches." \o fields["type"][1] \o "]">>
       \o concat([i \in DOMAIN order |-> field(order[i])])

\* The TOML lexer: the tokens between two quotes are one string, and a
\* line ends at a line break outside a string.  An item is [t, v] with t
\* "tok", "str" or "err" (a line no value can be read from).
Quoted(tokens, i) == Cardinality({j \in 1..(i - 1) : tokens[j] = Q}) % 2 = 1

Breaks(tokens) ==
    {i \in DOMAIN tokens : tokens[i] = NL /\ ~Quoted(tokens, i)}

\* The k-th line of the document, as tokens.
LineTokens(tokens, k) ==
    LET brk == Breaks(tokens) \cup {0, Len(tokens) + 1}
        from == CHOOSE i \in brk : Cardinality({j \in brk : j < i}) = k - 1
        to == CHOOSE i \in brk : Cardinality({j \in brk : j < i}) = k
    IN SubSeq(tokens, from + 1, to - 1)

Lex(seg) ==
    LET n == Len(seg)
    IN IF \A i \in DOMAIN seg : seg[i] # Q
       THEN [i \in DOMAIN seg |-> [t |-> "tok", v |-> <<seg[i]>>]]
       ELSE IF n >= 3 /\ seg[1] # Q /\ seg[2] = Q /\ seg[n] = Q
               /\ \A i \in 3..(n - 1) : seg[i] # Q
       THEN <<[t |-> "tok", v |-> <<seg[1]>>], [t |-> "str", v |-> SubSeq(seg, 3, n - 1)]>>
       ELSE <<[t |-> "err", v |-> <<>>]>>

SplitLines(tokens) ==
    [k \in 1..(Cardinality(Breaks(tokens)) + 1) |-> Lex(LineTokens(tokens, k))]

\* The bare values TOML accepts: numbers, booleans, an array of strings.
Literals == {"0", "true", "false", "[srcs]"}

IsValue(item) == item.t = "str" \/ (item.t = "tok" /\ item.v[1] \in Literals)

NewDoc ==
    [manifest |-> {}, has_manifest |-> FALSE, patches |-> <<>>, cur |-> "root",
     err |-> FALSE]

HasKey(pairs, k) == \E pr \in pairs : pr[1] = k

ValueOf(pairs, k) == (CHOOSE pr \in pairs : pr[1] = k)[2]

\* One line of the document: a header, a `key = value` pair, or nothing.
TomlLine(doc, line) ==
    LET n == Len(doc.patches)
        bad == [doc EXCEPT !.err = TRUE]
    IN IF doc.err THEN doc
       ELSE IF line = <<>> THEN doc
       ELSE IF \E k \in DOMAIN line : line[k].t = "err" THEN bad
       ELSE IF Len(line) = 1 /\ line[1].t = "tok" /\ line[1].v[1] \in Headers
       THEN LET h == line[1].v[1]
            IN CASE h = "[manifest]" ->
                      IF doc.has_manifest THEN bad
                      ELSE [doc EXCEPT !.has_manifest = TRUE, !.cur = "manifest"]
                 [] h = "[[patches]]" ->
                      [doc EXCEPT !.patches = Append(@, [tag |-> None, keys |-> {},
                                                         direct |-> FALSE]),
                                  !.cur = "element"]
                 [] h = "[[junk]]" -> [doc EXCEPT !.cur = "junk"]
                 [] OTHER ->
                      IF n = 0 \/ doc.patches[n].tag # None THEN bad
                      ELSE [doc EXCEPT !.patches[n].tag = Some(h), !.cur = "patch"]
       ELSE IF Len(line) = 2 /\ line[1].t = "tok" /\ line[1].v[1] \in KeyTokens
               /\ IsValue(line[2])
       THEN LET k == line[1].v[1]
            IN CASE doc.cur = "manifest" ->
                      IF HasKey(doc.manifest, k) THEN bad
                      ELSE [doc EXCEPT !.manifest = @ \cup {<<k, line[2]>>}]
                 [] doc.cur = "patch" ->
                      IF HasKey(doc.patches[n].keys, k) THEN bad
                      ELSE [doc EXCEPT !.patches[n].keys = @ \cup {<<k, line[2]>>}]
                 [] doc.cur = "element" -> [doc EXCEPT !.patches[n].direct = TRUE]
                 [] OTHER -> doc
       ELSE bad

RECURSIVE TomlLines(_, _)
TomlLines(doc, ls) ==
    IF ls = <<>> THEN doc ELSE TomlLines(TomlLine(doc, Head(ls)), Tail(ls))

IsStr(pairs, k) == HasKey(pairs, k) /\ ValueOf(pairs, k).t = "str"

PositionOf(v) ==
    CASE v = <<"at">> -> "At" [] v = <<"before">> -> "Before"
      [] v = <<"after">> -> "After" [] v = <<"prepend">> -> "Prepend"
      [] v = <<"append">> -> "Append" [] OTHER -> "invalid"

\* Whether a [[patches]] element deserializes into a Patch: one variant
\* table with the fields its struct requires, of the types it declares.
PatchOk(e) ==
    /\ e.tag # None
    /\ ~e.direct
    /\ LET has(k) == IsStr(e.keys, KeyToken(k))
           pos == IF has("position")
                  THEN PositionOf(ValueOf(e.keys, "position=").v) ELSE "invalid"
       IN CASE unwrap(e.tag) = "[patches.pattern]" ->
                 /\ has("pattern") /\ has("target") /\ has("payload")
                 /\ pos \in {"At", "Before", "After"}
                 /\ HasKey(e.keys, "match_indent=")
                 /\ ValueOf(e.keys, "match_indent=") \in
                       {[t |-> "tok", v |-> <<"true">>], [t |-> "tok", v |-> <<"false">>]}
            [] unwrap(e.tag) = "[patches.regex]" ->
                 /\ has("pattern") /\ has("target") /\ has("payload")
                 /\ pos \in {"At", "Before", "After"}
            [] unwrap(e.tag) = "[patches.copy]" ->
                 /\ has("target")
                 /\ pos \in {"Prepend", "Append"}
                 /\ HasKey(e.keys, "sources=") =>
                       ValueOf(e.keys, "sources=") = [t |-> "tok", v |-> <<"[srcs]">>]
            [] OTHER ->
                 has("source") /\ has("before") /\ has("name")

\* The Patch an element deserializes into.
PatchOf(e) ==
    LET val(k) == ValueOf(e.keys, KeyToken(k)).v
    IN CASE unwrap(e.tag) = "[patches.pattern]" ->
              [PatternOf(val("target"), val("pattern"), PositionOf(val("position")),
                         val("payload"), None)
                 EXCEPT !.match_indent = (val("match_indent") = <<"true">>)]
         [] unwrap(e.tag) = "[patches.regex]" ->
              [RegexOf(val("pattern"), PositionOf(val("position")), val("payload"), None)
                 EXCEPT !.target = val("target")]
         [] unwrap(e.tag) = "[patches.copy]" ->
              [CopyOf(PositionOf(val("position")), <<>>, None)
                 EXCEPT !.target = <<val("target")>>]
         [] OTHER -> ModuleOf(val("name"), val("before"), FALSE, "ok")

\* PatchFile::deserialize(toml::Deserializer::new(&toml)): the patches of
\* the document, or Err (None).
PatchFile_deserialize(tokens) ==
    LET doc == TomlLines(NewDoc, SplitLines(tokens))
    IN IF doc.err THEN None
       ELSE IF ~doc.has_manifest \/ ~IsStr(doc.manifest, "version=") THEN None
       ELSE IF HasKey(doc.manifest, "priority=")
               /\ ValueOf(doc.manifest, "priority=") # [t |-> "tok", v |-> <<"0">>]
       THEN None
       ELSE IF doc.patches = <<>> THEN None
       ELSE IF \E j \in DOMAIN doc.patches : ~PatchOk(doc.patches[j]) THEN None
       ELSE Some([j \in DOMAIN doc.patches |-> PatchOf(doc.patches[j])])

\* The order the HashMap of fields is iterated in: the keys of `first`,
\* then `priority`, then the others.
FieldKeys ==
    <<"type", "pattern", "position", "target", "payload", "match_indent",
      "sources", "name", "priority">>

OrderOf(fields, first) ==
    SelectSeq(FieldKeys, LAMBDA k : k \in DOMAIN fields /\ k \in first /\ k # "priority")
    \o SelectSeq(FieldKeys, LAMBDA k : k \in DOMAIN fields /\ k = "priority")
    \o SelectSeq(FieldKeys, LAMBDA k : k \in DOMAIN fields /\ k \notin first /\ k # "priority")

\* create_patch: args are the string fields of the Lua table, sources its
\* `sources` field when that is a table, readers the read locks held on
\* the patch table.  Returns the message pushed ("" for 0) and the table.
create_patch(args, sources, table, readers, first) ==
    LET fail(message) == [ret |-> message, table |-> table]
        type == IF "type" \in DOMAIN args THEN args["type"] ELSE None
        required == required_fields(type)
        fields == IF type = <<"copy">> /\ sources # None
                  THEN [k \in DOMAIN args \cup {"sources"} |->
                           IF k = "sources" THEN <<"[srcs]">> ELSE args[k]]
                  ELSE args
    IN IF "type" \notin DOMAIN args THEN fail("Missing field 'type'")
       ELSE IF ~required.ok THEN fail(required.message)
       ELSE IF type = <<"copy">> /\ sources = None
       THEN fail("Missing argument or argument type invalid for field 'sources'")
       ELSE IF \E k \in required.fields : k \notin DOMAIN fields
       THEN fail("Missing argument or argument type invalid for field")
       ELSE LET pf == PatchFile_deserialize(toml_of(fields, OrderOf(fields, first)))
            IN IF readers > 0 THEN fail("Failed to acquire lovely runtime")
               ELSE IF pf = None THEN fail("Failed to parse generated toml")
               ELSE LET patch == unwrap(pf)[1]
                        targets == CASE patch.kind = "module" -> table.targets
                                     [] patch.kind = "regex" ->
                                          table.targets \cup {patch.target}
                                     [] OTHER -> insert_into(patch.target, table.targets)
                    IN [ret |-> "",
                        table |-> [table EXCEPT
                                     !.targets = targets,
                                     !.patches = Append(@, [patch |-> patch, prio |-> 0])]]

\* A priority that closes the manifest and opens a patch of its own.
ModulePriority ==
    <<"0", NL, "[[patches]]", NL, "[patches.module]", NL, "source=", Q, "s", Q, NL,
      "before=", Q, "m", Q, NL, "name=", Q, "n", Q>>

\* A payload that closes its own string.
QuotePayload == <<"x", Q, NL, "[[junk]]", NL, "name=", Q, "n">>

CreateTypes == {None, <<"pattern">>, <<"regex">>, <<"copy">>, <<"module">>, <<"bogus">>}

CreateArgs ==
    { [k \in (({"pattern", "position", "target", "payload", "match_indent"} \ {drop})
              \cup (IF type = None THEN {} ELSE {"type"})
              \cup (IF priority = None THEN {} ELSE {"priority"})) |->
         CASE k = "type" -> type
           [] k = "priority" -> priority
           [] k = "pattern" -> <<"a">>
           [] k = "position" -> IF type = <<"copy">> THEN <<"append">> ELSE <<"after">>
           [] k = "target" -> M
           [] k = "payload" -> payload
           [] OTHER -> <<"true">>] :
      type \in CreateTypes, priority \in {None, <<"0">>, ModulePriority},
      drop \in {"none", "position", "target", "payload"},
      payload \in {<<"x">>, QuotePayload} }

CreateTables ==
    {PatchTable_default,
     PatchTable_load(<<Entry(PatternOf(O, <<"a">>, "At", <<"z">>, None), 0, NoVars)>>)}

EmitFirst == {{}, {"position"}, {"position", "target"}, {FieldKeys[i] : i \in DOMAIN FieldKeys}}

InitCreate ==
    /\ RestIdle
    /\ fn_in \in [args : CreateArgs, sources : {None, Some(<<>>)}, table : CreateTables,
                  readers : {0, 1}, first : EmitFirst]
    /\ fn_out = None

CreateCall ==
    Returns(create_patch(fn_in.args, fn_in.sources, fn_in.table, fn_in.readers,
                         fn_in.first))

SpecCreate == InitCreate /\ [][CreateCall]_vars

CreateFails ==
    \/ "type" \notin DOMAIN fn_in.args
    \/ fn_in.args["type"] \notin {<<"pattern">>, <<"regex">>, <<"copy">>}
    \/ \E k \in required_fields(fn_in.args["type"]).fields : k \notin DOMAIN fn_in.args
    \/ fn_in.args["type"] = <<"copy">> /\ fn_in.sources = None

\* C21: create_patch never adds a Module patch: a call with type module,
\* with a missing or invalid type or with a missing required field returns
\* a message and leaves targets and patches unchanged, and a successful
\* call appends exactly one pattern, regex or copy patch while no load
\* holds the table.
C21_NoModuleAdded ==
    fn_out # None =>
        LET r == unwrap(fn_out)
            n == Len(fn_in.table.patches)
        IN /\ CreateFails => r.ret # "" /\ r.table = fn_in.table
           /\ r.ret # "" => r.table = fn_in.table
           /\ r.ret = "" =>
                 /\ fn_in.readers = 0
                 /\ Len(r.table.patches) = n + 1
                 /\ SubSeq(r.table.patches, 1, n) = fn_in.table.patches
                 /\ r.table.patches[n + 1].patch.kind = unwrap(fn_in.args["type"])
                 /\ r.table.patches[n + 1].patch.kind # "module"

C21_ErrorsLeaveTable ==
    fn_out # None =>
        LET r == unwrap(fn_out)
        IN /\ CreateFails => r.ret # "" /\ r.table = fn_in.table
           /\ r.ret # "" => r.table = fn_in.table
           /\ r.ret = "" => fn_in.readers = 0 /\
                            Len(r.table.patches) = Len(fn_in.table.patches) + 1

C21_PlainSuccess ==
    /\ fn_out # None
    /\ unwrap(fn_out).ret = ""
    /\ fn_in.args["type"] = <<"copy">>
    /\ "priority" \in DOMAIN fn_in.args => fn_in.args["priority"] = <<"0">>

(***************************************************************************)
(* The scan and the edit loop of PatternPatch::apply, one edit per step    *)
(* (SpecScan).  The buffer is made of the lines "a" and "b", with or       *)
(* without a final "\n"; the patterns have one or two lines.               *)
(***************************************************************************)
\* Largest number of lines of the scanned buffer.
MaxScanLines == 4

ScanPatterns == { <<"a">>, <<"a", NL, "a">>, <<"a", NL, "b", NL>> }

ScanPayloads == { <<>>, <<"x">>, <<"a", NL, "a", NL>> }

ScanBuffers ==
    { LET text == concat([k \in DOMAIN ws |-> <<ws[k], NL>>])
      IN IF final THEN text ELSE SubSeq(text, 1, Len(text) - 1) :
      ws \in SeqUpTo({"a", "b"}, MaxScanLines) \ {<<>>}, final \in BOOLEAN }

InitScan ==
    /\ \E position \in {"Before", "After", "At"}, payload \in ScanPayloads,
          pattern \in ScanPatterns, times \in {None, Some(1)}, buffer \in ScanBuffers :
         fn_in = [patch |-> PatternOf(M, pattern, position, payload, times),
                  rope |-> buffer]
    /\ fn_out = None
    /\ RestIdle

\* The lines of a pattern, trimmed (pattern.rs:76-81).
wm_lines_of(p) ==
    LET pl == lines(p.pattern) IN [k \in DOMAIN pl |-> trim(pl[k])]

\* The scan and `times`: the matches the edit loop is about to visit.
ScanBegin ==
    /\ fn_out = None
    /\ LET wm_lines == wm_lines_of(fn_in.patch)
           all == ScanMatches(raw_lines(fn_in.rope), wm_lines,
                              fn_in.patch.match_indent, 0)
       IN fn_out' = Some([all |-> all,
                          todo |-> ApplyTimes(all, fn_in.patch.times),
                          st |-> [rope |-> fn_in.rope, regions |-> <<>>,
                                  line_delta |-> 0],
                          blocks |-> <<>>])
    /\ UNCHANGED <<fn_in, engine_vars, shim_vars, win_vars>>

\* One turn of the edit loop; blocks records start..end of the rope as the
\* turn found it.
ScanEdit ==
    /\ fn_out # None
    /\ unwrap(fn_out).todo # <<>>
    /\ LET o == unwrap(fn_out)
           n == Len(wm_lines_of(fn_in.patch))
           m == Head(o.todo)
           adjusted_line_idx == saturating_add_signed(m.line_idx, o.st.line_delta)
           start == byte_of_line(o.st.rope, adjusted_line_idx)
           end == byte_of_line(o.st.rope, adjusted_line_idx + n)
       IN fn_out' = Some([o EXCEPT
                            !.todo = Tail(o.todo),
                            !.st = PatternEdits(fn_in.patch, n, <<m>>, o.st),
                            !.blocks = Append(@, byte_slice(o.st.rope, start, end))])
    /\ UNCHANGED <<fn_in, engine_vars, shim_vars, win_vars>>

NextScan == ScanBegin \/ ScanEdit

SpecScan == InitScan /\ [][NextScan]_vars

\* The hits of a left-to-right scan: a window that matches, lies within the
\* buffer and does not start inside the window of an earlier hit.
Hits(rope_lines, wm_lines) ==
    LET n == Len(wm_lines)
        starts == {i \in 0..Len(rope_lines) : i + n <= Len(rope_lines)}
    IN CHOOSE H \in SUBSET starts :
          \A i \in starts :
             i \in H <=> /\ WindowMatches(rope_lines, wm_lines, i)
                         /\ \A j \in H : ~(j < i /\ i < j + n)

\* The original buffer from line k (0-based) on, with the payload put
\* before, after or in place of the block of each hit of `edited`.
RECURSIVE ScanExpected(_, _, _, _)
ScanExpected(rope_lines, n, edited, k) ==
    IF k >= Len(rope_lines) THEN <<>>
    ELSE IF k \in edited
    THEN LET block == concat(SubSeq(rope_lines, k + 1, k + n))
             payload == PatternPayload(fn_in.patch.payload, <<>>)
         IN (CASE fn_in.patch.position = "Before" -> payload \o block
               [] fn_in.patch.position = "After" -> block \o payload
               [] fn_in.patch.position = "At" -> payload)
            \o ScanExpected(rope_lines, n, edited, k + n)
    ELSE rope_lines[k + 1] \o ScanExpected(rope_lines, n, edited, k + 1)

\* C22: the matches are the hits of the left-to-right scan of the original
\* buffer, each turn of the edit loop finds at its adjusted line index the
\* block matched in the original buffer, and the edited rope is the
\* original one with the payload put at exactly the blocks kept.
C22_ScanAndDelta ==
    fn_out # None =>
        LET o == unwrap(fn_out)
            rope_lines == raw_lines(fn_in.rope)
            wm_lines == wm_lines_of(fn_in.patch)
            n == Len(wm_lines)
            kept == ApplyTimes(o.all, fn_in.patch.times)
        IN /\ {o.all[k].line_idx : k \in DOMAIN o.all} = Hits(rope_lines, wm_lines)
           /\ \A k \in DOMAIN o.all : \A j \in DOMAIN o.all :
                 k < j => o.all[k].line_idx < o.all[j].line_idx
           /\ \A k \in DOMAIN o.blocks :
                 o.blocks[k] = concat(SubSeq(rope_lines, kept[k].line_idx + 1,
                                             kept[k].line_idx + n))
           /\ o.todo = <<>> /\ o.all # <<>> =>
                 /\ o.st.rope = ScanExpected(rope_lines, n,
                                   {kept[k].line_idx : k \in DOMAIN kept}, 0)
                 /\ PatternPatch_apply(fn_in.patch, M, fn_in.rope).rope = o.st.rope

\* Two hits of a two-line pattern replaced by a one-line payload: the second
\* turn runs with a negative line_delta.
C22_Witness ==
    /\ fn_out # None
    /\ unwrap(fn_out).todo = <<>>
    /\ Len(unwrap(fn_out).blocks) = 2
    /\ fn_in.patch.position = "At"
    /\ unwrap(fn_out).st.line_delta < 0

(***************************************************************************)
(* The edit loop of RegexPatch::apply with a root capture (SpecSpan).      *)
(* The patterns are `a(=)c`, `(==)` and `a()`; the payloads hold no word   *)
(* character, so the boundary guards add nothing.                          *)
(***************************************************************************)
\* Largest number of pieces of the buffer.
MaxSpanPieces == 3

SpanPatterns ==
    { [pre |-> <<"a">>, grp |-> <<"=">>, post |-> <<"c">>],
      [pre |-> <<>>, grp |-> <<"=", "=">>, post |-> <<>>],
      [pre |-> <<"a">>, grp |-> <<>>, post |-> <<>>] }

SpanPayloads == { <<>>, <<"-">>, <<"+", "-", "+">>, <<"$", "1", "+">>, <<"$", "1", "$", "1">> }

SpanBuffers ==
    { concat(ps) : ps \in SeqUpTo({<<"a", "=", "c">>, <<"=">>, <<"-">>}, MaxSpanPieces) }

InitSpan ==
    /\ \E position \in {"Before", "After", "At"}, payload \in SpanPayloads,
          pattern \in SpanPatterns, root_capture \in {None, Some(<<"$", "1">>)},
          times \in {None, Some(1)}, b \in SpanBuffers :
         fn_in = [patch |-> [RegexOf(<<>>, position, payload, times)
                               EXCEPT !.pattern = pattern,
                                      !.root_capture = root_capture],
                  rope |-> b]
    /\ fn_out = None
    /\ RestIdle

SpecSpan == InitSpan /\ [][NextRegex]_vars

\* The captures the loop visits, with their spans in the original buffer.
SpanKept ==
    ApplyTimes(captures_iter(fn_in.patch.pattern, fn_in.rope, 0), fn_in.patch.times)

\* The root span of a match in the original buffer: group 1 when the patch
\* names it, the whole match otherwise.
SpanRoot(groups) ==
    IF fn_in.patch.root_capture = None THEN groups.g0 ELSE groups.g1

\* The original buffer from offset i on, with the payload of the k-th and
\* later matches put before, after or in place of their root spans.
RECURSIVE SpanExpected(_, _)
SpanExpected(i, k) ==
    IF k > Len(SpanKept) THEN SubSeq(fn_in.rope, i + 1, Len(fn_in.rope))
    ELSE LET sp == SpanRoot(SpanKept[k])
             root == byte_slice(fn_in.rope, sp.start, sp.end)
             text == interpolate_string(fn_in.patch.payload, 1, SpanKept[k],
                                        fn_in.rope, 0)
         IN SubSeq(fn_in.rope, i + 1, sp.start)
            \o (CASE fn_in.patch.position = "Before" -> text \o root
                  [] fn_in.patch.position = "After" -> root \o text
                  [] fn_in.patch.position = "At" -> text)
            \o SpanExpected(sp.end, k + 1)

\* C23: in every pass the root span shifted by the running delta holds, in
\* the rope as the pass finds it, the bytes the span holds in the original
\* buffer, and the rope after the last pass is the original buffer with
\* the payload before, after or in place of each root span and every
\* other byte as it was.
C23_SpanShift ==
    Edited =>
        LET cur == unwrap(fn_out)
            k == Len(SpanKept) - Len(cur.todo)
            sp == SpanRoot(SpanKept[k])
        IN /\ byte_slice(unwrap(cur.prev), unwrap(cur.span).start, unwrap(cur.span).end)
                = byte_slice(fn_in.rope, sp.start, sp.end)
           /\ SubSeq(unwrap(cur.prev), unwrap(cur.span).end + 1, Len(unwrap(cur.prev)))
                = SubSeq(fn_in.rope, sp.end + 1, Len(fn_in.rope))
           /\ cur.todo = <<>> =>
                 /\ cur.st.rope = SpanExpected(0, 1)
                 /\ RegexPatch_apply(fn_in.patch, M, fn_in.rope).rope = cur.st.rope

\* The third pass of a replacement of the group of `a(=)c` by a longer
\* payload.
C23_Witness ==
    /\ Edited
    /\ unwrap(fn_out).todo = <<>>
    /\ Len(SpanKept) = 3
    /\ fn_in.patch.position = "At"
    /\ fn_in.patch.root_capture # None
    /\ fn_in.patch.payload = <<"+", "-", "+">>
    /\ unwrap(fn_out).st.delta = 6

(***************************************************************************)
(* The vars of a load (SpecVars): patch files that parse, with zero to two *)
(* patches and a `vars` table each.                                        *)
(***************************************************************************)
\* Largest number of patch files of the mod directory.
MaxVarFiles == 2

VarsX == [k \in {<<"x">>} |-> <<"y">>]

VarFiles ==
    { [FileOf(TRUE, TRUE, patches, {}) EXCEPT !.vars = variables] :
      patches \in SeqUpTo({PatternOf(M, <<"a">>, "After", <<"x">>, None),
                           RegexOf(<<"a">>, "At", <<>>, None)}, 2),
      variables \in {NoVars, VarsV, VarsW, VarsX, extend(VarsW, VarsX)} }

InitVars ==
    /\ \E files \in SeqUpTo(VarFiles, MaxVarFiles) :
         /\ files # <<>>
         /\ fn_in = files
    /\ fn_out = None
    /\ RestIdle

SpecVars == InitVars /\ [][NextLoad]_vars

\* The bindings of the files up to the i-th, a later file's value taking
\* the place of an earlier one's.
RECURSIVE VarsUpTo(_)
VarsUpTo(i) ==
    IF i = 0 THEN NoVars
    ELSE LET before == VarsUpTo(i - 1)
         IN [k \in DOMAIN before \cup DOMAIN fn_in[i].vars |->
               IF k \in DOMAIN fn_in[i].vars THEN fn_in[i].vars[k] ELSE before[k]]

\* C24: the vars of the table a load returns are the bindings of all the
\* patch files loaded, the file discovered last winning a name bound more
\* than once, whether or not a file holds any patch.
C24_VarsOfAllFiles ==
    (fn_out # None /\ unwrap(fn_out).table # None)
    => unwrap(unwrap(fn_out).table).vars = VarsUpTo(Len(fn_in))

\* The same for the files that hold at least one patch.
C24_VarsOfFilesWithPatches ==
    (fn_out # None /\ unwrap(fn_out).table # None
     /\ \A i \in DOMAIN fn_in : fn_in[i].patches # <<>>)
    => unwrap(unwrap(fn_out).table).vars = VarsUpTo(Len(fn_in))

(***************************************************************************)
(* reload_patches called by the script of a load_now module (SpecNested).  *)
(* The module is evaluated by apply_patches, inside apply_buffer_patches,  *)
(* whose read guard lives until that function returns.  RwLock::write on a *)
(* lock the calling thread holds for reading either blocks for ever or     *)
(* panics, depending on the platform's lock; fn_in says which.             *)
(***************************************************************************)
ReloadScript == "reload"

DiskR ==
    [ok |-> TRUE,
     raw |-> <<Entry(ModuleOf(<<"n", "4">>, M, TRUE, ReloadScript), 0, NoVars)>>]

\* Whether the loop of load_now modules evaluates a script that reloads.
HasReloadScript(t) ==
    \E i \in DOMAIN t.patches :
       /\ t.patches[i].patch.kind = "module"
       /\ t.patches[i].patch.load_now
       /\ t.patches[i].patch.before = strip_at(ChunkName)
       /\ t.patches[i].patch.src = ReloadScript

InitNested ==
    /\ EngineStart(PatchTable_default)
    /\ dump_all = FALSE
    /\ buf = <<>>
    /\ ShimStart(PatchTable_load(DiskR.raw))
    /\ WinStart
    /\ fn_in \in {"blocks", "panics"}
    /\ fn_out = None

\* apply_patches on a table without such a script.
RewritePlain(t) == ~HasReloadScript(table_pub) /\ Rewrite(t)

\* apply_patches evaluates the script, which calls reload_patches: the
\* PatchTable::load of lib.rs:44, made while the caller's read guard lives.
RewriteScript(t) ==
    /\ tpc[t] = "rewrite"
    /\ HasReloadScript(table_pub)
    /\ Observe(t, "patches")
    /\ new_table' = [new_table EXCEPT ![t] =
                       [from |-> disk,
                        result |-> IF disk.ok THEN Some(PatchTable_load(disk.raw))
                                   ELSE None]]
    /\ tpc' = [tpc EXCEPT ![t] = "script"]
    /\ UNCHANGED <<disk, table_pub, rlock, tstate, luas, ret, calls, history>>
    /\ ShimFrame

\* reload_patches, the rest, inside the script: binding.write() returns
\* when no thread holds the lock, or panics where the lock does so; the
\* panic is caught and the script goes on.
ScriptReloadFinish(t) ==
    /\ tpc[t] = "script"
    /\ new_table[t].result # None => (CanWrite(rlock) \/ fn_in = "panics")
    /\ LET swapped == new_table[t].result # None /\ CanWrite(rlock)
       IN /\ table_pub' = IF swapped THEN unwrap(new_table[t].result) ELSE table_pub
          /\ ret' = [ret EXCEPT ![t] = IF swapped THEN <<TRUE>>
                                       ELSE <<FALSE, PanicMessage>>]
    /\ history' = history \cup {table_pub'}
    /\ luas' = [luas EXCEPT ![tstate[t]] =
                  RewriteModules(table_pub, module_patches(table_pub),
                                 strip_at(ChunkName), @)]
    /\ tpc' = [tpc EXCEPT ![t] = "interp"]
    /\ UNCHANGED <<disk, rlock, tstate, seen, new_table, calls>>
    /\ ShimFrame

NestedStep(t) ==
    \/ \E s \in States : Enter(t, s)
    \/ Check(t)
    \/ RewritePlain(t)
    \/ RewriteScript(t)
    \/ ScriptReloadFinish(t)
    \/ Interp(t)
    \/ Return(t)
    \/ ReloadLoad(t)
    \/ ReloadFinish(t)

NextNested == (\E t \in Threads : NestedStep(t)) \/ EditDisk

\* Every thread that can take a step eventually takes one.
SpecNested ==
    InitNested /\ [][NextNested]_vars /\ \A t \in Threads : WF_vars(NestedStep(t))

\* C25: a thread that is inside reload_patches, called from the host or
\* from a script evaluated during an apply, eventually leaves it.
C25_ReloadReturns ==
    \A t \in Threads : (tpc[t] \in {"script", "reloaded"}) ~> (tpc[t] \notin {"script", "reloaded"})

\* Where the lock panics, or nobody reloads from a script, reloads return.
C25_HostReloadReturns ==
    \A t \in Threads :
       (fn_in = "panics" /\ tpc[t] \in {"script", "reloaded"})
          ~> (tpc[t] \notin {"script", "reloaded"})

(***************************************************************************)
(* The target index over loads, reloads and create_patch (SpecIndex).      *)
(* fn_out is the table inside the lock, fn_in the operations made so far.  *)
(***************************************************************************)
\* Largest number of operations of a run.
MaxOps == 3

IndexPool ==
    { Entry(PatternOf(M, <<"a">>, "After", <<"x">>, None), 0, NoVars),
      Entry(PatternOf(<<"*">>, <<"a">>, "After", <<"x">>, None), 0, NoVars),
      Entry(RegexOf(<<"a">>, "At", <<>>, None), 0, NoVars),
      Entry(CopyOf("Append", <<>>, Some(<<"a">>)), 0, NoVars),
      Entry(ModuleOf(<<"n", "1">>, O, TRUE, "ok"), 0, NoVars) }

IndexArgs ==
    { [k \in {"type", "pattern", "position", "target", "payload", "match_indent"}
             \cup (IF priority = None THEN {} ELSE {"priority"}) |->
         CASE k = "type" -> type
           [] k = "priority" -> priority
           [] k = "pattern" -> <<"a">>
           [] k = "position" -> IF type = <<"copy">> THEN <<"append">> ELSE <<"after">>
           [] k = "target" -> target
           [] k = "payload" -> <<"x">>
           [] OTHER -> <<"true">>] :
      type \in {<<"pattern">>, <<"regex">>, <<"copy">>, <<"module">>},
      priority \in {None, ModulePriority},
      target \in {M, O, <<"?">>} }

InitIndex ==
    /\ RestIdle
    /\ fn_in = 0
    /\ fn_out = None

\* PatchTable::load at startup.
IndexLoad ==
    /\ fn_out = None
    /\ \E raw \in SeqUpTo(IndexPool, 2) : fn_out' = Some(PatchTable_load(raw))
    /\ fn_in' = fn_in + 1
    /\ UNCHANGED <<engine_vars, shim_vars, win_vars>>

\* reload_patches: the table replaced by a new load.
IndexReload ==
    /\ fn_out # None
    /\ fn_in < MaxOps
    /\ \E raw \in SeqUpTo(IndexPool, 2) : fn_out' = Some(PatchTable_load(raw))
    /\ fn_in' = fn_in + 1
    /\ UNCHANGED <<engine_vars, shim_vars, win_vars>>

\* create_patch while no load holds the table.
IndexCreate ==
    /\ fn_out # None
    /\ fn_in < MaxOps
    /\ \E args \in IndexArgs, first \in EmitFirst :
          fn_out' = Some(create_patch(args, Some(<<>>), unwrap(fn_out), 0, first).table)
    /\ fn_in' = fn_in + 1
    /\ UNCHANGED <<engine_vars, shim_vars, win_vars>>

NextIndex == IndexLoad \/ IndexReload \/ IndexCreate

SpecIndex == InitIndex /\ [][NextIndex]_vars

IndexNames == {<<"@", "m">>, M, O, <<"@", "o">>, <<"q">>}

\* Whether a patch accepts a chunk name: a target of the patch, or the
\* `before` of a module, equals the name or is a glob that matches it.
AcceptsName(p, nm) ==
    \E s \in TargetStrings(p) : s = nm \/ (IsGlob(s) /\ WildMatches(s, nm))

\* C26: whenever a patch of the table accepts a chunk name with its leading
\* `@` stripped, needs_patching is true for the name.
C26_NoApplicableSkipped ==
    fn_out # None =>
        \A nm \in IndexNames :
           (\E i \in DOMAIN unwrap(fn_out).patches :
               AcceptsName(unwrap(fn_out).patches[i].patch, strip_at(nm)))
           => needs_patching(unwrap(fn_out), nm)

\* The same for the targets spelled exactly as the name.
C26_ExactTargets ==
    fn_out # None =>
        \A nm \in IndexNames :
           (\E i \in DOMAIN unwrap(fn_out).patches :
               strip_at(nm) \in TargetStrings(unwrap(fn_out).patches[i].patch))
           => needs_patching(unwrap(fn_out), nm)

\* The same for the exact targets of the pattern, regex and copy patches.
C26_ExactNonModule ==
    fn_out # None =>
        \A nm \in IndexNames :
           (\E i \in DOMAIN unwrap(fn_out).patches :
               LET p == unwrap(fn_out).patches[i].patch
               IN p.kind # "module" /\ strip_at(nm) \in TargetStrings(p))
           => needs_patching(unwrap(fn_out), nm)

(***************************************************************************)
(* A rewrite in which a later replacement deletes across the end of an     *)
(* earlier patch's region (SpecShrink).                                    *)
(***************************************************************************)
ShrinkPool ==
    { Entry(PatternOf(M, <<"b">>, "After", <<"x", NL, "y">>, None), 0, NoVars),
      Entry(PatternOf(M, <<"y", NL, "c", "c", "c", "c">>, "At", <<>>, None), 1, NoVars),
      Entry(PatternOf(M, <<"y">>, "At", <<"z">>, None), 1, NoVars),
      Entry(RegexOf(<<"c">>, "At", <<>>, None), 1, NoVars),
      Entry(CopyOf("Prepend", <<>>, Some(<<"y", NL>>)), 0, NoVars),
      Entry(ModuleOf(<<"n", "1">>, M, TRUE, "ok"), 0, NoVars) }

ShrinkBuffers ==
    { <<"b", NL, "c", "c", "c", "c", NL>>, <<"b", NL>>, <<"c", "c", "c", "c", NL, "b">> }

InitShrink ==
    /\ \E c \in SeqUpTo(ShrinkPool, MaxPatches) : EngineStart(PatchTable_load(c))
    /\ dump_all \in BOOLEAN
    /\ buf \in ShrinkBuffers
    /\ ShimStart(PatchTable_default)
    /\ WinStart
    /\ FnIdle

SpecShrink == InitShrink /\ [][Next]_vars

\* C27: every byte region stored during a rewrite has start <= end.
C27_RegionsOrdered ==
    \A i \in DOMAIN byte_entries :
       \A k \in DOMAIN byte_entries[i].regions :
          byte_entries[i].regions[k].start <= byte_entries[i].regions[k].end

\* The same for the regions of the patch applied last.
C27_NewRegionsOrdered ==
    byte_entries # <<>> =>
       \A k \in DOMAIN byte_entries[Len(byte_entries)].regions :
          byte_entries[Len(byte_entries)].regions[k].start
             <= byte_entries[Len(byte_entries)].regions[k].end

(***************************************************************************)
(* The line regions of a rewrite whose variables hold line breaks          *)
(* (SpecLines).                                                            *)
(***************************************************************************)
VarsTwoLines == [k \in {<<"v">>} |-> <<"p", NL, "q">>]

LinesPool ==
    { Entry(PatternOf(M, <<"a">>, "After", <<"x">>, None), 0, VarsV),
      Entry(PatternOf(M, <<"a">>, "After", <<"x">>, None), 0, VarsTwoLines),
      Entry(PatternOf(M, <<"a">>, "Before", <<"x", NL, "x">>, None), 0, NoVars),
      Entry(RegexOf(<<"a">>, "At", <<"z">>, None), 0, NoVars),
      Entry(CopyOf("Append", <<>>, Some(<<"c">>)), 0, NoVars),
      Entry(ModuleOf(<<"n", "1">>, M, TRUE, "ok"), 0, NoVars) }

LinesBuffers ==
    { <<"{", "v", "}", NL, "a", NL>>, <<"b", NL, "a", NL>>, <<"a", NL, "b">> }

InitLines ==
    /\ \E c \in SeqUpTo(LinesPool, MaxPatches) : EngineStart(PatchTable_load(c))
    /\ dump_all \in BOOLEAN
    /\ buf \in LinesBuffers
    /\ ShimStart(PatchTable_default)
    /\ WinStart
    /\ FnIdle

SpecLines == InitLines /\ [][Next]_vars

\* The lines start_line..end_line (1-based, inclusive) of a text.
LinesOf(text, start_line, end_line) ==
    concat(SubSeq(raw_lines(text), start_line, end_line))

\* C28: once a rewrite has returned, every line region of its PatchDebug is
\* a range 1 <= start_line <= end_line within the patched string, and the
\* regions of a table whose only patch is a pattern patch hold, in the
\* patched string, the payload lines that patch inserted.
C28_LineRegions ==
    (pc = "done" /\ handed # None) =>
        /\ \A j \in DOMAIN debug : \A i \in DOMAIN debug[j].regions :
              LET r == debug[j].regions[i]
              IN /\ 1 <= r.start_line
                 /\ r.start_line <= r.end_line
                 /\ r.end_line <= line_len(unwrap(handed))
        /\ (Len(patch_table.patches) = 1 /\ patch_table.patches[1].patch.kind = "pattern")
           => \A j \in DOMAIN debug : \A i \in DOMAIN debug[j].regions :
                 LinesOf(unwrap(handed), debug[j].regions[i].start_line,
                         debug[j].regions[i].end_line)
                   = PatternPayload(patch_table.patches[1].patch.payload, <<>>)

\* The same when no variable holds a line break and every patch of the
\* table is a pattern patch.
C28_PatternRegionsOneLineVars ==
    (/\ pc = "done" /\ handed # None
     /\ \A k \in DOMAIN patch_table.vars :
           \A c \in DOMAIN patch_table.vars[k] : patch_table.vars[k][c] # NL
     /\ \A i \in DOMAIN patch_table.patches : patch_table.patches[i].patch.kind = "pattern")
    => /\ \A j \in DOMAIN debug : \A i \in DOMAIN debug[j].regions :
             LET r == debug[j].regions[i]
             IN 1 <= r.start_line /\ r.start_line <= r.end_line
                /\ r.end_line <= line_len(unwrap(handed))
       /\ Len(patch_table.patches) = 1
           => \A j \in DOMAIN debug : \A i \in DOMAIN debug[j].regions :
                 LinesOf(unwrap(handed), debug[j].regions[i].start_line,
                         debug[j].regions[i].end_line)
                   = PatternPayload(patch_table.patches[1].patch.payload, <<>>)

\* The lines the claim has a Before or After patch leave: the original
\* lines from line k (0-based) on, the payload lines before the block of
\* each hit or after it.
RECURSIVE OwnLines(_, _, _, _)
OwnLines(orig, n, edited, k) ==
    IF k >= Len(orig) THEN <<>>
    ELSE IF k \in edited
    THEN LET block == SubSeq(orig, k + 1, k + n)
             payload == lines(PatternPayload(fn_in.patch.payload, <<>>))
         IN (IF fn_in.patch.position = "Before" THEN payload \o block
             ELSE block \o payload)
            \o OwnLines(orig, n, edited, k + n)
    ELSE <<orig[k + 1]>> \o OwnLines(orig, n, edited, k + 1)

\* C29: after a Before or After pattern patch the lines of the rope are the
\* original lines, each unchanged, with the payload lines between them,
\* and every inserted payload starts at a line boundary.
C29_PayloadOnOwnLines ==
    (/\ fn_out # None
     /\ unwrap(fn_out).todo = <<>>
     /\ unwrap(fn_out).all # <<>>
     /\ fn_in.patch.position \in {"Before", "After"})
    => LET o == unwrap(fn_out)
           kept == ApplyTimes(o.all, fn_in.patch.times)
       IN /\ lines(o.st.rope)
               = OwnLines(lines(fn_in.rope), Len(wm_lines_of(fn_in.patch)),
                          {kept[k].line_idx : k \in DOMAIN kept}, 0)
          /\ \A k \in DOMAIN o.st.regions :
                o.st.regions[k].start = 0 \/ o.st.rope[o.st.regions[k].start] = NL

\* The same for the buffers that end with a line break, and for Before on
\* any buffer.
C29_WithFinalNewline ==
    (/\ fn_out # None
     /\ unwrap(fn_out).todo = <<>>
     /\ unwrap(fn_out).all # <<>>
     /\ \/ fn_in.patch.position = "Before"
        \/ fn_in.patch.position = "After" /\ fn_in.rope[Len(fn_in.rope)] = NL)
    => LET o == unwrap(fn_out)
           kept == ApplyTimes(o.all, fn_in.patch.times)
       IN /\ lines(o.st.rope)
               = OwnLines(lines(fn_in.rope), Len(wm_lines_of(fn_in.patch)),
                          {kept[k].line_idx : k \in DOMAIN kept}, 0)
          /\ \A k \in DOMAIN o.st.regions :
                o.st.regions[k].start = 0 \/ o.st.rope[o.st.regions[k].start] = NL

(***************************************************************************)
(* line_prepend and payload of a regex patch (SpecPrepend).  The patterns  *)
(* are `(\$0);` and `(=);`: the first captures text that reads as a        *)
(* capture reference.                                                      *)
(***************************************************************************)
\* Largest number of pieces of the buffer.
MaxPrependPieces == 2

PrependPatterns ==
    { [pre |-> <<>>, grp |-> <<"$", "0">>, post |-> <<";">>],
      [pre |-> <<>>, grp |-> <<"=">>, post |-> <<";">>] }

PrependBuffers ==
    { concat(ps) : ps \in SeqUpTo({<<"$", "0", ";">>, <<"=", ";">>, <<"-">>},
                                  MaxPrependPieces) }

InitPrepend ==
    /\ \E position \in {"Before", "After", "At"},
          payload \in {<<"-">>, <<"$", "1", "-">>, <<"-", NL, "-">>},
          line_prepend \in {<<>>, <<"$", "1">>, <<"+">>},
          pattern \in PrependPatterns, b \in PrependBuffers :
         fn_in = [patch |-> [RegexOf(<<>>, position, payload, None)
                               EXCEPT !.pattern = pattern,
                                      !.line_prepend = line_prepend],
                  rope |-> b]
    /\ fn_out = None
    /\ RestIdle

SpecPrepend == InitPrepend /\ [][NextRegex]_vars

\* The text the claim has a pass insert for a match: before each payload
\* line the line_prepend with its references replaced by the captured
\* text, then the line with its own references replaced, the captured
\* text itself never read again.
VerbatimPayload(groups) ==
    LET prepend == interpolate_string(fn_in.patch.line_prepend, 1, groups, fn_in.rope, 0)
        parts == split_inclusive(fn_in.patch.payload)
    IN concat([k \in DOMAIN parts |->
                 prepend \o interpolate_string(parts[k], 1, groups, fn_in.rope, 0)])

\* C30: every pass of a regex patch puts, at the place it edits, the
\* payload whose capture references and whose line_prepend's capture
\* references are replaced by the captured buffer text as it stands.
C30_CapturedTextVerbatim ==
    Edited =>
        LET cur == unwrap(fn_out)
            k == Len(SpanKept) - Len(cur.todo)
        IN cur.st.rope = EditLeft \o VerbatimPayload(SpanKept[k]) \o EditRight

\* The same when the captured text holds no `$`.
C30_PlainCapturedText ==
    (Edited /\ fn_in.patch.pattern.grp = <<"=">>) =>
        LET cur == unwrap(fn_out)
            k == Len(SpanKept) - Len(cur.todo)
        IN cur.st.rope = EditLeft \o VerbatimPayload(SpanKept[k]) \o EditRight
====
